---------------------------- MODULE Spec2Model ----------------------------
(***************************************************************************)
(* athlete-router: src/lib/router.js.                                      *)
(*                                                                         *)
(* A router is constructed from a forest of route objects (flattening,     *)
(* pattern compilation, duplicate validation) and then queried with        *)
(* resolve(path, method); a match is inspected with getHandler and         *)
(* getParams.                                                              *)
(*                                                                         *)
(* A JavaScript string is a sequence of one-character strings, so that     *)
(* split, startsWith, slice, the escaping of exact() and the matching of   *)
(* the compiled expression are computed character by character.            *)
(***************************************************************************)
EXTENDS Integers, Sequences, FiniteSets, TLC

VARIABLES
    mode,       \* the factory used: "http" (createHttpRouter), "ws" (createWsRouter)
    routes,     \* the ...routes argument of the constructor
    router,     \* the router the caller holds: NoRouter, or [compiledRoutes |-> ...]
    error,      \* what the constructor threw: NoError or an error value
    call,       \* the arguments of the last resolve call: NoCall or [path, method]
    result,     \* what that call returned: Null or a MatchedRoute
    got,        \* what the last getHandler / getParams on result returned
    held        \* an earlier resolve call whose result another caller still holds

vars == <<mode, routes, router, error, call, result, got, held>>

----------------------------------------------------------------------------
(* JavaScript values *)

\* JavaScript values: a function (a handler, known by the route that owns
\* it and the property it is stored under), a string, an array, undefined, null
FunctionValue(id, key) == [t |-> "function", id |-> id, key |-> key]
StringValue(str)       == [t |-> "string", str |-> str]
ArrayValue(len)        == [t |-> "array", len |-> len]
UndefinedValue         == [t |-> "undefined"]
NullValue              == [t |-> "null"]

\* typeof v === "function"
IsFunction(v) == v.t = "function"

\* ToBoolean(v): undefined, null and the empty string are falsy
Truthy(v) ==
    CASE v.t = "undefined" -> FALSE
      [] v.t = "null"      -> FALSE
      [] v.t = "string"    -> v.str # <<>>
      [] OTHER             -> TRUE

\* a property key that is undefined is the key "undefined"
Undefined == "undefined"

----------------------------------------------------------------------------
(* String helpers *)

\* Array.prototype.join("") over an array of strings
RECURSIVE Join(_)
Join(parts) ==
    IF parts = <<>> THEN <<>> ELSE Head(parts) \o Join(Tail(parts))

\* String.prototype.startsWith
StartsWith(s, prefix) ==
    /\ Len(s) >= Len(prefix)
    /\ SubSeq(s, 1, Len(prefix)) = prefix

\* String.prototype.slice(1)
Slice1(s) == IF s = <<>> THEN <<>> ELSE Tail(s)

\* String.prototype.split(sep) for a one-character separator: the pieces
\* between the separators, empty pieces included.
RECURSIVE SplitFrom(_, _, _)
SplitFrom(s, sep, cur) ==
    IF s = <<>> THEN <<cur>>
    ELSE IF Head(s) = sep THEN <<cur>> \o SplitFrom(Tail(s), sep, <<>>)
    ELSE SplitFrom(Tail(s), sep, Append(cur, Head(s)))

Split(s, sep) == SplitFrom(s, sep, <<>>)

\* Array.prototype.filter(Boolean) over strings: the empty string is falsy
FilterBoolean(arr) == SelectSeq(arr, LAMBDA x : x # <<>>)

\* pattern.split(sep).filter(Boolean)
Segments(pattern, sep) == FilterBoolean(Split(pattern, sep))

----------------------------------------------------------------------------
(* RegExpPatternBuilder: parts is an array of expression source fragments *)

\* the characters of /[.*+?^${}()|[\]\\]/
EscapedChars == {".", "*", "+", "?", "^", "$", "{", "}", "(", ")", "|", "[", "]", "\\"}

RECURSIVE EscapeStr(_)
EscapeStr(str) ==
    IF str = <<>> THEN <<>>
    ELSE (IF Head(str) \in EscapedChars THEN <<"\\", Head(str)>> ELSE <<Head(str)>>)
         \o EscapeStr(Tail(str))

NewBuilder == <<>>

BuilderExact(parts, str) == Append(parts, EscapeStr(str))

DefaultConstraint == <<"[", "^", "/", "?", "#", "]", "+">>

BuilderParam(parts, name) ==
    Append(parts, <<"(", "?", "<">> \o name \o <<">">> \o DefaultConstraint \o <<")">>)

BuilderWildcard(parts) == Append(parts, DefaultConstraint)

BuilderDeepWildcard(parts) == Append(parts, <<".", "+", "?">>)

BuilderConcat(parts, other) == parts \o other

\* a bug: the pattern text is not anchored to the end of the input
BuildTextOpenEnd(parts) == <<"^">> \o Join(parts)

\* the pattern text handed to new RegExp by build()
BuildText(parts) == <<"^">> \o Join(parts) \o <<"$">>

----------------------------------------------------------------------------
(* new RegExp(text): the expression is parsed from its text.  The parser   *)
(* covers the syntax the builder emits: anchors, escaped and plain         *)
(* characters, named groups, a negated class, the dot, and the quantifiers *)
(* + and +? on a single atom.  A compiled program is a sequence of:        *)
(*   <<"bol">>, <<"eol">>, <<"open", name>>, <<"close">>,                  *)
(*   <<"one", atom>>, <<"plus", atom, greedy>>                             *)
(* with atom one of <<"char", c>>, <<"notin", set>>, <<"any">>.            *)

\* the outcome of parsing: the program, or a SyntaxError
Parsed(toks) == [ok |-> TRUE, toks |-> toks]
SyntaxError == [ok |-> FALSE]

Letters == {"a", "b", "c", "x", "y"}

\* a capture group name is an identifier
ValidGroupName(name) ==
    /\ name # <<>>
    /\ \A i \in 1..Len(name) : name[i] \in Letters

\* index of the first occurrence of c in t at or after i, 0 if none
RECURSIVE IndexOf(_, _, _)
IndexOf(t, c, i) ==
    IF i > Len(t) THEN 0
    ELSE IF t[i] = c THEN i
    ELSE IndexOf(t, c, i + 1)

\* the quantifier after an atom that ends at position j - 1
Quantified(t, j, atom) ==
    IF j <= Len(t) /\ t[j] = "+"
    THEN IF j + 1 <= Len(t) /\ t[j + 1] = "?"
         THEN [tok |-> <<"plus", atom, FALSE>>, next |-> j + 2]
         ELSE [tok |-> <<"plus", atom, TRUE>>, next |-> j + 1]
    ELSE [tok |-> <<"one", atom>>, next |-> j]

RECURSIVE ParseFrom(_, _, _)
ParseFrom(t, i, depth) ==
    IF i > Len(t) THEN (IF depth = 0 THEN Parsed(<<>>) ELSE SyntaxError)
    ELSE
    LET c == t[i]
        Then(tok, next, d) ==
            LET rest == ParseFrom(t, next, d)
            IN  IF rest.ok THEN Parsed(<<tok>> \o rest.toks) ELSE SyntaxError
        Atom(atom, j) ==
            LET q == Quantified(t, j, atom) IN Then(q.tok, q.next, depth)
    IN  CASE c = "^" -> Then(<<"bol">>, i + 1, depth)
          [] c = "$" -> Then(<<"eol">>, i + 1, depth)
          [] c = "\\" ->
                IF i + 1 > Len(t) THEN SyntaxError
                ELSE Atom(<<"char", t[i + 1]>>, i + 2)
          [] c = "(" ->
                \* only the named group (?<name> is emitted
                LET close == IndexOf(t, ">", i + 3)
                IN  IF /\ i + 2 <= Len(t)
                       /\ t[i + 1] = "?"
                       /\ t[i + 2] = "<"
                       /\ close # 0
                       /\ ValidGroupName(SubSeq(t, i + 3, close - 1))
                    THEN Then(<<"open", SubSeq(t, i + 3, close - 1)>>, close + 1, depth + 1)
                    ELSE SyntaxError
          [] c = ")" ->
                IF depth = 0 THEN SyntaxError
                ELSE Then(<<"close">>, i + 1, depth - 1)
          [] c = "[" ->
                \* only the negated class [^...] is emitted
                LET close == IndexOf(t, "]", i + 2)
                IN  IF i + 1 <= Len(t) /\ t[i + 1] = "^" /\ close # 0
                    THEN Atom(<<"notin", {t[k] : k \in (i + 2)..(close - 1)}>>, close + 1)
                    ELSE SyntaxError
          [] c = "." -> Atom(<<"any">>, i + 1)
          \* exact() escapes these, so the builder never emits them bare
          [] c \in {"*", "+", "?", "{", "}", "|", "]"} -> SyntaxError
          [] OTHER -> Atom(<<"char", c>>, i + 1)

GroupNames(prog) ==
    LET opens == SelectSeq(prog, LAMBDA tok : tok[1] = "open")
    IN  [k \in 1..Len(opens) |-> opens[k][2]]

NoDuplicates(seq) == \A i, j \in 1..Len(seq) : seq[i] = seq[j] => i = j

\* RegExp.prototype.source writes an unescaped "/" outside a class as "\/"
RECURSIVE EscapeSource(_, _, _)
EscapeSource(t, i, inClass) ==
    IF i > Len(t) THEN <<>>
    ELSE IF t[i] = "\\" /\ i + 1 <= Len(t)
         THEN <<t[i], t[i + 1]>> \o EscapeSource(t, i + 2, inClass)
    ELSE IF t[i] = "/" /\ ~inClass
         THEN <<"\\", "/">> \o EscapeSource(t, i + 1, inClass)
    ELSE <<t[i]>> \o EscapeSource(t, i + 1,
                        IF t[i] = "[" THEN TRUE ELSE IF t[i] = "]" THEN FALSE ELSE inClass)

\* new RegExp(text): throws a SyntaxError (ok is FALSE), or gives the regex
\* with its source and program; without flags the regex is neither global nor
\* sticky, and its lastIndex starts at 0
NewRegExp(text) ==
    LET prog == ParseFrom(text, 1, 0)
    IN  IF ~prog.ok THEN [ok |-> FALSE]
        ELSE IF ~NoDuplicates(GroupNames(prog.toks)) THEN [ok |-> FALSE]
        ELSE [ok |-> TRUE, source |-> EscapeSource(text, 1, FALSE), prog |-> prog.toks,
              sticky |-> FALSE, lastIndex |-> 0]

\* a bug: the expression is built with the sticky flag, new RegExp(pattern, "y")
BuilderBuildSticky(parts) ==
    LET regex == NewRegExp(BuildText(parts))
    IN  IF regex.ok THEN [regex EXCEPT !.sticky = TRUE] ELSE regex

\* build(): "^" + parts.join("") + "$" handed to new RegExp
BuilderBuild(parts) == NewRegExp(BuildText(parts))

----------------------------------------------------------------------------
(* String.prototype.match(regex) for a regex without the g flag: the       *)
(* backtracking matcher, trying alternatives in the engine's priority      *)
(* order (greedy: longest first; lazy: shortest first).                    *)

Matched(caps, end) == [matched |-> TRUE, caps |-> caps, end |-> end]
NoMatch == [matched |-> FALSE]

\* "." matches anything but a line terminator
LineTerminators == {"\n", "\r"}

AtomMatches(atom, ch) ==
    CASE atom[1] = "char"  -> ch = atom[2]
      [] atom[1] = "notin" -> ch \notin atom[2]
      [] atom[1] = "any"   -> ch \notin LineTerminators

\* the number of consecutive characters of s from position pi on that atom matches
RECURSIVE RunLength(_, _, _)
RunLength(atom, s, pi) ==
    IF pi > Len(s) \/ ~AtomMatches(atom, s[pi]) THEN 0
    ELSE 1 + RunLength(atom, s, pi + 1)

\* opens: start positions of the groups still open (innermost last);
\* caps: <<name, value>> of the groups closed so far.
RECURSIVE MatchFrom(_, _, _, _, _, _), TryPlus(_, _, _, _, _, _, _, _)
MatchFrom(prog, ti, s, pi, opens, caps) ==
    IF ti > Len(prog) THEN Matched(caps, pi - 1)
    ELSE
    LET tok == prog[ti]
    IN  CASE tok[1] = "bol" ->
                IF pi = 1 THEN MatchFrom(prog, ti + 1, s, pi, opens, caps) ELSE NoMatch
          [] tok[1] = "eol" ->
                IF pi = Len(s) + 1 THEN MatchFrom(prog, ti + 1, s, pi, opens, caps) ELSE NoMatch
          [] tok[1] = "open" ->
                MatchFrom(prog, ti + 1, s, pi, Append(opens, <<tok[2], pi>>), caps)
          [] tok[1] = "close" ->
                LET o == opens[Len(opens)]
                IN  MatchFrom(prog, ti + 1, s, pi, SubSeq(opens, 1, Len(opens) - 1),
                              Append(caps, <<o[1], SubSeq(s, o[2], pi - 1)>>))
          [] tok[1] = "one" ->
                IF pi <= Len(s) /\ AtomMatches(tok[2], s[pi])
                THEN MatchFrom(prog, ti + 1, s, pi + 1, opens, caps)
                ELSE NoMatch
          [] tok[1] = "plus" ->
                LET run == RunLength(tok[2], s, pi)
                IN  IF run = 0 THEN NoMatch
                    ELSE IF tok[3] THEN TryPlus(prog, ti, s, pi, opens, caps, run, run)
                    ELSE TryPlus(prog, ti, s, pi, opens, caps, 1, run)

\* the quantified atom takes k characters; on failure of the rest the greedy
\* quantifier gives one back and the lazy one takes one more
TryPlus(prog, ti, s, pi, opens, caps, k, run) ==
    IF k < 1 \/ k > run THEN NoMatch
    ELSE LET r == MatchFrom(prog, ti + 1, s, pi + k, opens, caps)
         IN  IF r.matched THEN r
             ELSE TryPlus(prog, ti, s, pi, opens, caps, IF prog[ti][3] THEN k - 1 ELSE k + 1, run)

\* the match is searched at every start position, leftmost first
RECURSIVE MatchAt(_, _, _)
MatchAt(prog, s, start) ==
    IF start > Len(s) + 1 THEN NoMatch
    ELSE LET r == MatchFrom(prog, 1, s, start, <<>>, <<>>)
         IN  IF r.matched THEN r ELSE MatchAt(prog, s, start + 1)

\* RegExpBuiltinExec of a regex that is not global: the match is searched
\* from position 0, or at lastIndex only when the regex is sticky; the
\* outcome is the match and the lastIndex the regex is left with (written
\* only when the regex is sticky)
RegExpExec(regex, s) ==
    IF ~regex.sticky
    THEN [match |-> MatchAt(regex.prog, s, 1), lastIndex |-> regex.lastIndex]
    ELSE IF regex.lastIndex > Len(s) THEN [match |-> NoMatch, lastIndex |-> 0]
    ELSE LET r == MatchFrom(regex.prog, 1, s, regex.lastIndex + 1, <<>>, <<>>)
         IN  IF r.matched THEN [match |-> r, lastIndex |-> r.end]
             ELSE [match |-> NoMatch, lastIndex |-> 0]

\* path.match(regex): null (matched is FALSE), or the match result with its
\* groups, a function from the group names to the captured strings
StringMatch(path, regex) ==
    LET r == RegExpExec(regex, path).match
    IN  IF ~r.matched THEN [matched |-> FALSE]
        ELSE [matched |-> TRUE,
              groups |-> [n \in {r.caps[k][1] : k \in 1..Len(r.caps)} |->
                            r.caps[CHOOSE k \in 1..Len(r.caps) : r.caps[k][1] = n][2]]]

\* the regex after path.match(regex)
AfterMatch(path, regex) == [regex EXCEPT !.lastIndex = RegExpExec(regex, path).lastIndex]

----------------------------------------------------------------------------
(* Route objects.  A route is [id, pattern, slots, children]: id stands    *)
(* for the identity of the object, slots are its own properties other than *)
(* pattern and children (the method handlers).                             *)

\* route[key]
RouteProp(route, key) ==
    IF key = "pattern" THEN StringValue(route.pattern)
    ELSE IF key = "children"
         THEN (IF route.children = <<>> THEN UndefinedValue ELSE ArrayValue(Len(route.children)))
    ELSE IF key \in DOMAIN route.slots THEN route.slots[key]
    ELSE UndefinedValue

----------------------------------------------------------------------------
(* The strategies of the two factories *)

httpMethods == <<"get", "post", "put", "delete", "patch", "head", "options">>

wsMethods == <<"connect", "disconnect", "message">>

\* a bug: the loop goes on after a "**" segment
RECURSIVE HttpSegmentPartsNoBreak(_, _, _)
HttpSegmentPartsNoBreak(segments, i, parts) ==
    IF i > Len(segments) THEN parts
    ELSE
    LET segment == segments[i]
        sep(ps) == IF i < Len(segments) /\ segment # <<"*", "*">>
                   THEN BuilderExact(ps, <<"/">>) ELSE ps
    IN  IF StartsWith(segment, <<":">>)
        THEN HttpSegmentPartsNoBreak(segments, i + 1, sep(BuilderParam(parts, Slice1(segment))))
        ELSE IF segment = <<"*">>
        THEN HttpSegmentPartsNoBreak(segments, i + 1, sep(BuilderWildcard(parts)))
        ELSE IF segment = <<"*", "*">>
        THEN HttpSegmentPartsNoBreak(segments, i + 1, sep(BuilderDeepWildcard(parts)))
        ELSE HttpSegmentPartsNoBreak(segments, i + 1, sep(BuilderExact(parts, segment)))

\* the fragments compileHttpPattern's loop appends for segments[i..]
RECURSIVE HttpSegmentParts(_, _, _)
HttpSegmentParts(segments, i, parts) ==
    IF i > Len(segments) THEN parts
    ELSE
    LET segment == segments[i]
        sep(ps) == IF i < Len(segments) /\ segment # <<"*", "*">>
                   THEN BuilderExact(ps, <<"/">>) ELSE ps
    IN  IF StartsWith(segment, <<":">>)
        THEN HttpSegmentParts(segments, i + 1, sep(BuilderParam(parts, Slice1(segment))))
        ELSE IF segment = <<"*">>
        THEN HttpSegmentParts(segments, i + 1, sep(BuilderWildcard(parts)))
        ELSE IF segment = <<"*", "*">>
        THEN BuilderDeepWildcard(parts)      \* break
        ELSE HttpSegmentParts(segments, i + 1, sep(BuilderExact(parts, segment)))

\* a bug: the empty segments of the pattern are kept
compileHttpPatternKeepsEmpty(pattern, parts) ==
    HttpSegmentParts(Split(pattern, "/"), 1, BuilderExact(parts, <<"/">>))

\* the builder's parts after compileHttpPattern(pattern, builder)
compileHttpPattern(pattern, parts) ==
    HttpSegmentParts(Segments(pattern, "/"), 1, BuilderExact(parts, <<"/">>))

RECURSIVE WsSegmentParts(_, _, _, _)
WsSegmentParts(segments, i, startsWithColon, parts) ==
    IF i > Len(segments) THEN parts
    ELSE
    LET segment == segments[i]
        p1 == IF i = 1 /\ startsWithColon THEN BuilderExact(parts, <<":">>) ELSE parts
        p2 == IF segment = <<"*">> THEN BuilderWildcard(p1) ELSE BuilderExact(p1, segment)
        p3 == IF i < Len(segments) THEN BuilderExact(p2, <<":">>) ELSE p2
    IN  WsSegmentParts(segments, i + 1, startsWithColon, p3)

\* a bug: no ":" is emitted for a pattern that starts with ":"
compileWsPatternNoLeadingColon(pattern, parts) ==
    WsSegmentParts(Segments(pattern, ":"), 1, FALSE, parts)

\* the builder's parts after compileWsPattern(pattern, builder)
compileWsPattern(pattern, parts) ==
    WsSegmentParts(Segments(pattern, ":"), 1, StartsWith(pattern, <<":">>), parts)

\* a bug: the bonuses of the parameter and of the wildcard are exchanged
HttpKindBonusSwapped(segment) ==
    IF segment = <<"*", "*">> THEN 1
    ELSE IF segment = <<"*">> THEN 100
    ELSE IF StartsWith(segment, <<":">>) THEN 10
    ELSE 1000

\* a bug: the bonuses are a hundred times as large
HttpKindBonusHundredfold(segment) ==
    IF segment = <<"*", "*">> THEN 100
    ELSE IF segment = <<"*">> THEN 1000
    ELSE IF StartsWith(segment, <<":">>) THEN 10000
    ELSE 100000

HttpKindBonus(segment) ==
    IF segment = <<"*", "*">> THEN 1
    ELSE IF segment = <<"*">> THEN 10
    ELSE IF StartsWith(segment, <<":">>) THEN 100
    ELSE 1000

\* a bug: the bonuses of the wildcard and of the literal are exchanged
WsKindBonusSwapped(segment) == IF segment = <<"*">> THEN 1000 ELSE 10

WsKindBonus(segment) == IF segment = <<"*">> THEN 10 ELSE 1000

\* the sum of the loop of calculateRouteSpecificity / calculateWsSpecificity
RECURSIVE SegmentScore(_, _, _)
SegmentScore(segments, i, ws) ==
    IF i > Len(segments) THEN 0
    ELSE (IF ws THEN WsKindBonus(segments[i]) ELSE HttpKindBonus(segments[i]))
         + (Len(segments) - (i - 1)) * 1000
         + SegmentScore(segments, i + 1, ws)

\* route is a MatchedRoute; the score is that of route.getRoute().pattern
calculateRouteSpecificity(matchedRoute) ==
    LET segments == Segments(matchedRoute.route.pattern, "/")
    IN  Len(segments) * 10000 + SegmentScore(segments, 1, FALSE)

calculateWsSpecificity(matchedRoute) ==
    LET segments == Segments(matchedRoute.route.pattern, ":")
    IN  Len(segments) * 10000 + SegmentScore(segments, 1, TRUE)

\* a bug: a later route replaces best with an equal score too
RECURSIVE SelectLoopLastWins(_, _, _, _, _)
SelectLoopLastWins(matched, i, best, bestScore, ws) ==
    IF i > Len(matched) THEN best
    ELSE LET score == IF ws THEN calculateWsSpecificity(matched[i])
                      ELSE calculateRouteSpecificity(matched[i])
         IN  IF score >= bestScore
             THEN SelectLoopLastWins(matched, i + 1, matched[i], score, ws)
             ELSE SelectLoopLastWins(matched, i + 1, best, bestScore, ws)

\* the loop of selectMostSpecificRoute over matched[i..]: a later route
\* replaces best only with a strictly greater score
RECURSIVE SelectLoop(_, _, _, _, _)
SelectLoop(matched, i, best, bestScore, ws) ==
    IF i > Len(matched) THEN best
    ELSE LET score == IF ws THEN calculateWsSpecificity(matched[i])
                      ELSE calculateRouteSpecificity(matched[i])
         IN  IF score > bestScore
             THEN SelectLoop(matched, i + 1, matched[i], score, ws)
             ELSE SelectLoop(matched, i + 1, best, bestScore, ws)

\* resolve calls the strategy on a non-empty list only
selectMostSpecificRoute(matched) ==
    SelectLoop(matched, 2, matched[1], calculateRouteSpecificity(matched[1]), FALSE)

selectMostSpecificWsRoute(matched) ==
    SelectLoop(matched, 2, matched[1], calculateWsSpecificity(matched[1]), TRUE)

\* the strategies of the custom routers: (matched) => matched[0] and
\* (matched) => matched[matched.length - 1]
selectFirst(matched) == matched[1]

selectLast(matched) == matched[Len(matched)]

\* this.#methods, this.#compilePattern, this.#selectRoute as the factory sets
\* them; the modes "first" and "last" are new Router(httpMethods,
\* compileHttpPattern, selectFirst or selectLast, ...routes)
MethodsOf(m) == IF m = "ws" THEN wsMethods ELSE httpMethods

CompilePattern(m, pattern, parts) ==
    IF m = "ws" THEN compileWsPattern(pattern, parts) ELSE compileHttpPattern(pattern, parts)

SelectRoute(m, matched) ==
    CASE m = "http"  -> selectMostSpecificRoute(matched)
      [] m = "ws"    -> selectMostSpecificWsRoute(matched)
      [] m = "first" -> selectFirst(matched)
      [] m = "last"  -> selectLast(matched)

----------------------------------------------------------------------------
(* Router *)

hasHandlers(m, route) ==
    \E k \in 1..Len(MethodsOf(m)) : IsFunction(RouteProp(route, MethodsOf(m)[k]))

getHandlerMethods(m, route) ==
    SelectSeq(MethodsOf(m), LAMBDA method : IsFunction(RouteProp(route, method)))

\* a bug: the children are compiled from the builder of the parent's parent
RECURSIVE FlattenFromNoPrefix(_, _, _, _)
FlattenFromNoPrefix(m, rs, i, parentParts) ==
    IF i > Len(rs) THEN [ok |-> TRUE, table |-> <<>>]
    ELSE
    LET route == rs[i]
        parts == CompilePattern(m, route.pattern, BuilderConcat(NewBuilder, parentParts))
        regex == BuilderBuild(parts)
    IN  IF ~regex.ok THEN [ok |-> FALSE]
        ELSE
        LET own  == IF hasHandlers(m, route)
                    THEN <<[route |-> route, regex |-> regex]>> ELSE <<>>
            sub  == IF route.children # <<>>
                    THEN FlattenFromNoPrefix(m, route.children, 1, parentParts)
                    ELSE [ok |-> TRUE, table |-> <<>>]
        IN  IF ~sub.ok THEN [ok |-> FALSE]
            ELSE LET rest == FlattenFromNoPrefix(m, rs, i + 1, parentParts)
                 IN  IF ~rest.ok THEN [ok |-> FALSE]
                     ELSE [ok |-> TRUE, table |-> own \o sub.table \o rest.table]

\* a bug: the entries of the children are pushed before the route's own
RECURSIVE FlattenFromChildrenFirst(_, _, _, _)
FlattenFromChildrenFirst(m, rs, i, parentParts) ==
    IF i > Len(rs) THEN [ok |-> TRUE, table |-> <<>>]
    ELSE
    LET route == rs[i]
        parts == CompilePattern(m, route.pattern, BuilderConcat(NewBuilder, parentParts))
        regex == BuilderBuild(parts)
    IN  IF ~regex.ok THEN [ok |-> FALSE]
        ELSE
        LET own  == IF hasHandlers(m, route)
                    THEN <<[route |-> route, regex |-> regex]>> ELSE <<>>
            sub  == IF route.children # <<>>
                    THEN FlattenFromChildrenFirst(m, route.children, 1, parts)
                    ELSE [ok |-> TRUE, table |-> <<>>]
        IN  IF ~sub.ok THEN [ok |-> FALSE]
            ELSE LET rest == FlattenFromChildrenFirst(m, rs, i + 1, parentParts)
                 IN  IF ~rest.ok THEN [ok |-> FALSE]
                     ELSE [ok |-> TRUE, table |-> sub.table \o own \o rest.table]

\* a bug: every route is pushed, with or without handlers
RECURSIVE FlattenFromPushAll(_, _, _, _)
FlattenFromPushAll(m, rs, i, parentParts) ==
    IF i > Len(rs) THEN [ok |-> TRUE, table |-> <<>>]
    ELSE
    LET route == rs[i]
        parts == CompilePattern(m, route.pattern, BuilderConcat(NewBuilder, parentParts))
        regex == BuilderBuild(parts)
    IN  IF ~regex.ok THEN [ok |-> FALSE]
        ELSE
        LET own  == <<[route |-> route, regex |-> regex]>>
            sub  == IF route.children # <<>>
                    THEN FlattenFromPushAll(m, route.children, 1, parts)
                    ELSE [ok |-> TRUE, table |-> <<>>]
        IN  IF ~sub.ok THEN [ok |-> FALSE]
            ELSE LET rest == FlattenFromPushAll(m, rs, i + 1, parentParts)
                 IN  IF ~rest.ok THEN [ok |-> FALSE]
                     ELSE [ok |-> TRUE, table |-> own \o sub.table \o rest.table]

\* a bug: the routes of one list share a builder, so a route is compiled
\* after the parts its earlier sibling left
RECURSIVE FlattenFromSharedBuilder(_, _, _, _)
FlattenFromSharedBuilder(m, rs, i, parentParts) ==
    IF i > Len(rs) THEN [ok |-> TRUE, table |-> <<>>]
    ELSE
    LET route == rs[i]
        parts == CompilePattern(m, route.pattern, BuilderConcat(NewBuilder, parentParts))
        regex == BuilderBuild(parts)
    IN  IF ~regex.ok THEN [ok |-> FALSE]
        ELSE
        LET own  == IF hasHandlers(m, route)
                    THEN <<[route |-> route, regex |-> regex]>> ELSE <<>>
            sub  == IF route.children # <<>>
                    THEN FlattenFromSharedBuilder(m, route.children, 1, parts)
                    ELSE [ok |-> TRUE, table |-> <<>>]
        IN  IF ~sub.ok THEN [ok |-> FALSE]
            ELSE LET rest == FlattenFromSharedBuilder(m, rs, i + 1, parts)
                 IN  IF ~rest.ok THEN [ok |-> FALSE]
                     ELSE [ok |-> TRUE, table |-> own \o sub.table \o rest.table]

\* #flattenRoutes(routes, parentBuilder) over routes[i..]; parentParts are the
\* parent builder's parts (none for the top level, where parentBuilder is null).
\* The result is the table, or ok = FALSE when a compilation threw.
RECURSIVE FlattenFrom(_, _, _, _)
FlattenFrom(m, rs, i, parentParts) ==
    IF i > Len(rs) THEN [ok |-> TRUE, table |-> <<>>]
    ELSE
    LET route == rs[i]
        parts == CompilePattern(m, route.pattern, BuilderConcat(NewBuilder, parentParts))
        regex == BuilderBuild(parts)
    IN  IF ~regex.ok THEN [ok |-> FALSE]
        ELSE
        LET own  == IF hasHandlers(m, route)
                    THEN <<[route |-> route, regex |-> regex]>> ELSE <<>>
            sub  == IF route.children # <<>>
                    THEN FlattenFrom(m, route.children, 1, parts)
                    ELSE [ok |-> TRUE, table |-> <<>>]
        IN  IF ~sub.ok THEN [ok |-> FALSE]
            ELSE LET rest == FlattenFrom(m, rs, i + 1, parentParts)
                 IN  IF ~rest.ok THEN [ok |-> FALSE]
                     ELSE [ok |-> TRUE, table |-> own \o sub.table \o rest.table]

flattenRoutes(m, rs) == FlattenFrom(m, rs, 1, <<>>)

\* a bug: the key holds the shape of the expression without its group names
DuplicateKeyWithoutNames(method, regex) ==
    <<method, [k \in 1..Len(regex.prog) |->
                  IF regex.prog[k][1] = "open" THEN <<"open">> ELSE regex.prog[k]]>>

\* a bug: the key holds the expression source only
DuplicateKeySourceOnly(method, regex) == <<regex.source>>

\* a bug: the key holds the method only
DuplicateKeyMethodOnly(method, regex) == <<method>>

\* the key `${method}:${regex.source}`
DuplicateKey(method, regex) == <<method, regex.source>>

NoDuplicate == [dup |-> FALSE]

\* a bug: the Map seen is emptied at every entry of the table
RECURSIVE CheckFromForgetful(_, _, _, _, _)
CheckFromForgetful(m, table, i, k, seen) ==
    IF i > Len(table) THEN NoDuplicate
    ELSE
    LET methods == getHandlerMethods(m, table[i].route)
    IN  IF k > Len(methods) THEN CheckFromForgetful(m, table, i + 1, 1, {})
        ELSE LET key == DuplicateKey(methods[k], table[i].regex)
             IN  IF key \in seen
                 THEN [dup |-> TRUE, method |-> methods[k], pattern |-> table[i].route.pattern]
                 ELSE CheckFromForgetful(m, table, i, k + 1, seen \cup {key})

\* a bug: the key holds the expression of the route's own pattern, without
\* the patterns of its ancestors
RECURSIVE CheckFromOwnPattern(_, _, _, _, _)
CheckFromOwnPattern(m, table, i, k, seen) ==
    IF i > Len(table) THEN NoDuplicate
    ELSE
    LET methods == getHandlerMethods(m, table[i].route)
    IN  IF k > Len(methods) THEN CheckFromOwnPattern(m, table, i + 1, 1, seen)
        ELSE LET own == BuilderBuild(CompilePattern(m, table[i].route.pattern, NewBuilder))
                 key == DuplicateKey(methods[k], own)
             IN  IF key \in seen
                 THEN [dup |-> TRUE, method |-> methods[k], pattern |-> table[i].route.pattern]
                 ELSE CheckFromOwnPattern(m, table, i, k + 1, seen \cup {key})

\* #checkDuplicates: the loops over compiledRoutes[i..] and methods[k..] with
\* the Map seen; the result is the first duplicate met, if any
RECURSIVE CheckFrom(_, _, _, _, _)
CheckFrom(m, table, i, k, seen) ==
    IF i > Len(table) THEN NoDuplicate
    ELSE
    LET methods == getHandlerMethods(m, table[i].route)
    IN  IF k > Len(methods) THEN CheckFrom(m, table, i + 1, 1, seen)
        ELSE LET key == DuplicateKey(methods[k], table[i].regex)
             IN  IF key \in seen
                 THEN [dup |-> TRUE, method |-> methods[k], pattern |-> table[i].route.pattern]
                 ELSE CheckFrom(m, table, i, k + 1, seen \cup {key})

checkDuplicates(m, table) == CheckFrom(m, table, 1, 1, {})

\* a bug: the loop of resolve does not look at route[method]
RECURSIVE MatchedFromAnyMethod(_, _, _, _)
MatchedFromAnyMethod(table, i, path, method) ==
    IF i > Len(table) THEN <<>>
    ELSE LET matchResult == StringMatch(path, table[i].regex)
             rest == MatchedFromAnyMethod(table, i + 1, path, method)
         IN  IF matchResult.matched
             THEN <<[route |-> table[i].route, matchResult |-> matchResult]>> \o rest
             ELSE rest

\* the loop of resolve over compiledRoutes[i..]
RECURSIVE MatchedFrom(_, _, _, _)
MatchedFrom(table, i, path, method) ==
    IF i > Len(table) THEN <<>>
    ELSE LET matchResult == StringMatch(path, table[i].regex)
             rest == MatchedFrom(table, i + 1, path, method)
         IN  IF matchResult.matched /\ Truthy(RouteProp(table[i].route, method))
             THEN <<[route |-> table[i].route, matchResult |-> matchResult]>> \o rest
             ELSE rest

NullResult == [kind |-> "null"]

\* a bug: resolve reorders the table in place
TableAfterResolveReversed(table, path) ==
    [i \in 1..Len(table) |-> table[Len(table) + 1 - i]]

\* the table after the loop of resolve: every regex has been matched against
\* the path once
TableAfterResolve(table, path) ==
    [i \in 1..Len(table) |-> [table[i] EXCEPT !.regex = AfterMatch(path, table[i].regex)]]

\* a bug: the strategy selects among all the routes the path matches, and
\* the method is looked at afterwards
resolveFilterLast(m, table, path, method) ==
    LET matched == MatchedFromAnyMethod(table, 1, path, method)
    IN  IF Len(matched) = 0 THEN NullResult
        ELSE LET sel == SelectRoute(m, matched)
             IN  IF Truthy(RouteProp(sel.route, method))
                 THEN [kind |-> "match", route |-> sel.route, matchResult |-> sel.matchResult]
                 ELSE NullResult

\* resolve(path, method): null or the MatchedRoute the strategy selects
resolve(m, table, path, method) ==
    LET matched == MatchedFrom(table, 1, path, method)
    IN  IF Len(matched) = 0 THEN NullResult
        ELSE LET sel == SelectRoute(m, matched)
             IN  [kind |-> "match", route |-> sel.route, matchResult |-> sel.matchResult]

\* MatchedRoute.getHandler(method): this.#route[method] || null
getHandler(matchedRoute, method) ==
    LET v == RouteProp(matchedRoute.route, method)
    IN  IF Truthy(v) THEN v ELSE NullValue

\* MatchedRoute.getParams(): this.#matchResult.groups || {}
\* (groups is undefined without named groups; {} is the empty function)
getParams(matchedRoute) == matchedRoute.matchResult.groups

----------------------------------------------------------------------------
(* The state machine: construction, then resolve calls and the inspection  *)
(* of their results by the caller.                                         *)

NoRouterYet == [built |-> FALSE]
NoError     == [thrown |-> FALSE]
NoCall      == [made |-> FALSE]
NoResult    == [kind |-> "none"]
NothingGot  == [kind |-> "none"]
NothingHeld == [made |-> FALSE]

\* new Router(methods, compilePattern, selectRoute, ...routes): flattening,
\* then duplicate validation; the caller gets the router only if neither threw
Construct ==
    /\ ~router.built
    /\ ~error.thrown
    /\ LET flat == flattenRoutes(mode, routes)
       IN  IF ~flat.ok
           THEN /\ error' = [thrown |-> TRUE, name |-> "SyntaxError"]
                /\ UNCHANGED router
           ELSE LET d == checkDuplicates(mode, flat.table)
                IN  IF d.dup
                    THEN /\ error' = [thrown |-> TRUE, name |-> "Error",
                                      message |-> "Duplicate route detected",
                                      method |-> d.method, pattern |-> d.pattern]
                         /\ UNCHANGED router
                    ELSE /\ router' = [built |-> TRUE, compiledRoutes |-> flat.table]
                         /\ UNCHANGED error
    /\ UNCHANGED <<mode, routes, call, result, got, held>>

\* router.resolve(path, method), for a path of paths and a method of methods
Resolve(paths, methods) ==
    /\ router.built
    /\ ~call.made
    /\ \E path \in paths, method \in methods :
          /\ call' = [made |-> TRUE, path |-> path, method |-> method]
          /\ result' = resolve(mode, router.compiledRoutes, path, method)
          /\ router' = [router EXCEPT
                           !.compiledRoutes = TableAfterResolve(router.compiledRoutes, path)]
    /\ got' = NothingGot
    /\ UNCHANGED <<mode, routes, error, held>>

\* matched.getHandler(method), for a method of methods; method is Undefined
\* when the argument is omitted
GetHandler(methods) ==
    /\ result.kind = "match"
    /\ got.kind = "none"
    /\ \E method \in methods :
          got' = [kind |-> "handler", arg |-> method, value |-> getHandler(result, method)]
    /\ UNCHANGED <<mode, routes, router, error, call, result, held>>

\* matched.getParams()
GetParams ==
    /\ result.kind = "match"
    /\ got.kind = "none"
    /\ got' = [kind |-> "params", value |-> getParams(result)]
    /\ UNCHANGED <<mode, routes, router, error, call, result, held>>

\* the caller drops the result of the call; the router is ready for the next
Discard ==
    /\ call.made
    /\ call' = NoCall
    /\ result' = NoResult
    /\ got' = NothingGot
    /\ UNCHANGED <<mode, routes, router, error, held>>

\* another caller keeps the result of the call it made, and the router is
\* ready for the calls of the others
Keep ==
    /\ call.made
    /\ ~held.made
    /\ held' = [made |-> TRUE, path |-> call.path, method |-> call.method, result |-> result]
    /\ call' = NoCall
    /\ result' = NoResult
    /\ got' = NothingGot
    /\ UNCHANGED <<mode, routes, router, error>>

----------------------------------------------------------------------------
(* Inputs.  The route objects handed to the constructor and the arguments  *)
(* of resolve are drawn from the bounded sets below.                       *)

MaxRoutes == 4      \* routes of a flat route list
MaxPathLen == 4     \* characters of a path given to resolve
MaxDupRoutes == 2   \* routes of a route list that may hold duplicates
MaxDepth == 3       \* levels of a chain of nested routes
MaxPathSegs == 3    \* segments of a path given to a router of nested routes
MaxSharedRoutes == 2 \* routes of a router that several callers share
MaxRoots == 2       \* top-level routes of a tree of routes
MaxLengthRoutes == 3 \* routes of a route list with patterns of several lengths
MaxChildren == 2    \* children of a route of a tree of routes

\* all strings of at most n characters over chars
StrsUpTo(chars, n) == UNION {[1..k -> chars] : k \in 0..n}

\* the lists of 1..n distinct elements of S
InjSeqs(S, n) ==
    UNION {{f \in [1..k -> S] : \A i, j \in 1..k : f[i] = f[j] => i = j} : k \in 1..n}

\* the lists of 1..n elements of S
Seqs(S, n) == UNION {[1..k -> S] : k \in 1..n}

\* a route object: each method of methods holds a function of its own
MkRoute(id, pattern, methods, children) ==
    [id |-> id, pattern |-> pattern,
     slots |-> [k \in methods |-> FunctionValue(id, k)],
     children |-> children]

\* a flat route list from a list of templates [pattern, methods]
FlatRoutes(templates) ==
    [i \in 1..Len(templates) |->
        MkRoute(<<i>>, templates[i].pattern, templates[i].methods, <<>>)]

\* a chain of nested routes from a list of templates: levels[i + 1] is the
\* only child of levels[i]
RECURSIVE ChainFrom(_, _)
ChainFrom(levels, i) ==
    MkRoute([k \in 1..i |-> 1], levels[i].pattern, levels[i].methods,
            IF i < Len(levels) THEN <<ChainFrom(levels, i + 1)>> ELSE <<>>)

ChainRoutes(levels) == <<ChainFrom(levels, 1)>>

T(pattern, methods) == [pattern |-> pattern, methods |-> methods]

\* routes of createHttpRouter that differ in the kind of a segment
HttpPool ==
    { T(<<"a", "/", "b">>, {"get"}),
      T(<<"a", "/", ":", "x">>, {"get"}),
      T(<<"a", "/", "*">>, {"get", "post"}),
      T(<<"a", "/", "*", "*">>, {"get"}),
      T(<<":", "x", "/", "b">>, {"get", "post"}) }

HttpPathChars == {"/", "a", "b"}

HttpPaths == StrsUpTo(HttpPathChars, MaxPathLen)

\* the method arguments of getHandler: two configured methods, and an omitted one
HttpMethodArgs == {"get", "post", Undefined}

InitWith(m, rs) ==
    /\ mode = m
    /\ routes \in rs
    /\ router = NoRouterYet
    /\ error = NoError
    /\ call = NoCall
    /\ result = NoResult
    /\ got = NothingGot
    /\ held = NothingHeld

InitHttp == InitWith("http", {FlatRoutes(l) : l \in InjSeqs(HttpPool, MaxRoutes)})

NextHttp ==
    \/ Construct
    \/ Resolve(HttpPaths, {"get", "post"})
    \/ GetHandler(HttpMethodArgs)
    \/ GetParams
    \/ Discard

SpecHttp == InitHttp /\ [][NextHttp]_vars

\* single routes whose last segment is a parameter, a wildcard or a deep wildcard
QueryPool ==
    { T(<<"a", "/", ":", "x">>, {"get"}),
      T(<<"a", "/", "*">>, {"get"}),
      T(<<"a", "/", "*", "*">>, {"get"}),
      T(<<":", "x">>, {"get"}),
      T(<<"*">>, {"get"}),
      T(<<"*", "*">>, {"get"}) }

\* paths with the query marker and the fragment marker
QueryPaths == StrsUpTo({"/", "a", "?", "#"}, MaxPathLen)

InitQuery == InitWith("http", {FlatRoutes(<<t>>) : t \in QueryPool})

NextQuery ==
    \/ Construct
    \/ Resolve(QueryPaths, {"get"})
    \/ GetHandler({"get"})
    \/ GetParams
    \/ Discard

SpecQuery == InitQuery /\ [][NextQuery]_vars

\* the paths of 1..n segments, each preceded by "/"
RECURSIVE SegPaths(_, _)
SegPaths(segs, n) ==
    IF n = 0 THEN {}
    ELSE LET shorter == SegPaths(segs, n - 1)
         IN  {<<"/">> \o sg : sg \in segs}
             \cup shorter
             \cup {p \o <<"/">> \o sg : p \in shorter, sg \in segs}

PathSegs == {<<"a">>, <<"b">>}

NestPaths == SegPaths(PathSegs, MaxPathSegs)

\* routes that construct to the same or to different expressions, with the
\* same or with different methods
DupPool ==
    { T(<<"a", "/", ":", "x">>, {"get"}),
      T(<<"a", "/", ":", "x">>, {"post"}),
      T(<<"a", "/", ":", "x">>, {"get", "post"}),
      T(<<"a", "/", ":", "y">>, {"get"}),
      T(<<"/", "a", "/", ":", "x">>, {"get"}),
      T(<<"/", "a", "/", ":", "x">>, {"post"}),
      T(<<"a", "/", "*">>, {"get"}),
      T(<<"a", "/", "*">>, {"get", "post"}) }

\* paths that the routes of DupPool match, and paths that none matches
DupPaths ==
    { <<"/", "a">>, <<"/", "a", "/", "a">>, <<"/", "a", "/", "b">>, <<"/", "b", "/", "a">> }

InitDup == InitWith("http", {FlatRoutes(l) : l \in Seqs(DupPool, MaxDupRoutes)})

NextDup ==
    \/ Construct
    \/ Resolve(DupPaths, {"get", "post"})
    \/ GetHandler({"get", "post"})
    \/ GetParams
    \/ Discard

SpecDup == InitDup /\ [][NextDup]_vars

\* the levels of a chain of nested routes, with and without handlers
NestPool ==
    { T(<<"a">>, {}),
      T(<<"a">>, {"get"}),
      T(<<":", "x">>, {}),
      T(<<":", "x">>, {"get"}),
      T(<<"*", "*">>, {"get"}) }

InitNest == InitWith("http", {ChainRoutes(l) : l \in Seqs(NestPool, MaxDepth)})

NextNest ==
    \/ Construct
    \/ Resolve(NestPaths, {"get", "post"})
    \/ GetHandler({"get", "post"})
    \/ GetParams
    \/ Discard

SpecNest == InitNest /\ [][NextNest]_vars

\* routes of createWsRouter with literal and wildcard segments
WsPool ==
    { T(<<"a", ":", "b">>, {"message"}),
      T(<<"a", ":", "*">>, {"message"}),
      T(<<"*", ":", "b">>, {"message", "connect"}),
      T(<<"*", ":", "*">>, {"message"}) }

WsPaths == StrsUpTo({":", "a", "b"}, MaxPathLen)

InitWs == InitWith("ws", {FlatRoutes(l) : l \in InjSeqs(WsPool, MaxRoutes)})

NextWs ==
    \/ Construct
    \/ Resolve(WsPaths, {"message", "connect"})
    \/ GetHandler({"message", "connect"})
    \/ GetParams
    \/ Discard

SpecWs == InitWs /\ [][NextWs]_vars

\* a template of a route with children
N(pattern, methods, children) ==
    [pattern |-> pattern, methods |-> methods, children |-> children]

\* the route objects of a sequence of templates with children, below prefix
RECURSIVE TreeRoutes(_, _)
TreeRoutes(nodes, prefix) ==
    [i \in 1..Len(nodes) |->
        MkRoute(prefix \o <<i>>, nodes[i].pattern, nodes[i].methods,
                TreeRoutes(nodes[i].children, prefix \o <<i>>))]

\* trees of two levels whose routes match overlapping sets of paths
TreePatterns == {<<"a">>, <<"*">>}

TreeLeaves == {N(p, {"get"}, <<>>) : p \in TreePatterns}

\* a route has no children or different children; top-level routes may repeat
TreeNodes ==
    {N(p, {"get"}, kids) : p \in TreePatterns,
                           kids \in {<<>>} \cup InjSeqs(TreeLeaves, MaxChildren)}

TreePaths ==
    { <<"/", "a">>, <<"/", "b">>, <<"/", "a", "/", "a">>, <<"/", "a", "/", "b">> }

\* new Router(httpMethods, compileHttpPattern, selectFirst, ...routes) and the
\* same with selectLast
InitTree ==
    /\ mode \in {"first", "last"}
    /\ routes \in {TreeRoutes(l, <<>>) : l \in Seqs(TreeNodes, MaxRoots)}
    /\ router = NoRouterYet
    /\ error = NoError
    /\ call = NoCall
    /\ result = NoResult
    /\ got = NothingGot
    /\ held = NothingHeld

NextTree ==
    \/ Construct
    \/ Resolve(TreePaths, {"get"})
    \/ GetHandler({"get"})
    \/ GetParams
    \/ Discard

SpecTree == InitTree /\ [][NextTree]_vars

\* single routes whose patterns hold characters that are operators of the
\* expression syntax, in a literal segment or in the name of a parameter
InjectPool ==
    { T(<<"a", ".">>, {"get"}),
      T(<<".">>, {"get"}),
      T(<<"a", "+">>, {"get"}),
      T(<<"a", "|", "b">>, {"get"}),
      T(<<"(", "a", ")">>, {"get"}),
      T(<<"[", "^", "a", "]">>, {"get"}),
      T(<<":", "x">>, {"get"}),
      T(<<":">>, {"get"}),
      T(<<":", "x", "/", ":", "x">>, {"get"}),
      T(<<":", "x", ">", ".", "+", ")", "(", "?", "<", "y">>, {"get"}) }

InjectPaths == StrsUpTo({"/", "a", "b", "."}, MaxPathLen)

InitInject == InitWith("http", {FlatRoutes(<<t>>) : t \in InjectPool})

NextInject ==
    \/ Construct
    \/ Resolve(InjectPaths, {"get"})
    \/ GetHandler({"get"})
    \/ GetParams
    \/ Discard

SpecInject == InitInject /\ [][NextInject]_vars

\* routes with patterns of one, two and three segments; those that end in a
\* deep wildcard match paths that longer patterns match too
LengthPool ==
    { T(<<"*", "*">>, {"get"}),
      T(<<"a", "/", "*", "*">>, {"get"}),
      T(<<":", "x", "/", "*", "*">>, {"get"}),
      T(<<"a", "/", "b">>, {"get"}),
      T(<<"a", "/", "*", "/", "b">>, {"get"}),
      T(<<"*", "/", "*", "/", "*">>, {"get"}) }

InitLength == InitWith("http", {FlatRoutes(l) : l \in InjSeqs(LengthPool, MaxLengthRoutes)})

NextLength ==
    \/ Construct
    \/ Resolve(NestPaths, {"get"})
    \/ GetHandler({"get"})
    \/ GetParams
    \/ Discard

SpecLength == InitLength /\ [][NextLength]_vars

\* a router whose resolve is given second arguments of every sort: a method
\* with a handler, a method without, the name of a route property that is no
\* handler, a name that is not a method, and none
ArgRoutes ==
    {FlatRoutes(<<t>>) : t \in {T(<<"a">>, {"get"}), T(<<":", "x">>, {"get"}),
                                T(<<"a", "/", "b">>, {"get"})}}
    \cup {ChainRoutes(l) : l \in {<<T(<<"a">>, {"get"}), T(<<"b">>, {"get"})>>,
                                  <<T(<<":", "x">>, {"get"}), T(<<"b">>, {"post"})>>}}

ArgPaths == { <<"/", "a">>, <<"/", "b">>, <<"/", "a", "/", "b">> }

MethodArgs == {"get", "post", "pattern", "children", "trace", Undefined}

InitArgs == InitWith("http", ArgRoutes)

NextArgs ==
    \/ Construct
    \/ Resolve(ArgPaths, MethodArgs)
    \/ GetHandler(MethodArgs)
    \/ GetParams
    \/ Discard

SpecArgs == InitArgs /\ [][NextArgs]_vars

\* a router that several callers resolve on, one keeping its result while
\* the others go on calling
SharedPaths ==
    { <<"/", "a">>, <<"/", "a", "/", "a">>, <<"/", "a", "/", "b">>, <<"/", "b", "/", "b">> }

InitShared == InitWith("http", {FlatRoutes(l) : l \in InjSeqs(HttpPool, MaxSharedRoutes)})

NextShared ==
    \/ Construct
    \/ Resolve(SharedPaths, {"get", "post"})
    \/ Keep
    \/ GetHandler({"get", "post"})
    \/ GetParams
    \/ Discard

SpecShared == InitShared /\ [][NextShared]_vars

----------------------------------------------------------------------------
(* Vocabulary of the properties *)

\* the table of the constructed router
Table == router.compiledRoutes

\* the entries that match the path of the last call and whose route has a
\* function under the method of the last call
Candidates ==
    {i \in 1..Len(Table) :
        /\ StringMatch(call.path, Table[i].regex).matched
        /\ IsFunction(RouteProp(Table[i].route, call.method))}

\* the entry of the route the last call returned
IsResult(i) == result.kind = "match" /\ result.route.id = Table[i].route.id

\* the kinds of a path-style segment, ordered:
\* literal (4) > named parameter (3) > single wildcard (2) > deep wildcard (1)
KindRank(segment) ==
    IF segment = <<"*", "*">> THEN 1
    ELSE IF segment = <<"*">> THEN 2
    ELSE IF segment # <<>> /\ Head(segment) = ":" THEN 3
    ELSE 4

HttpSegs(i) == Segments(Table[i].route.pattern, "/")

\* the patterns of entries i and j have the same number of segments and
\* differ only in the kind of the segment at pos
DifferInKindAt(i, j, pos) ==
    /\ Len(HttpSegs(i)) = Len(HttpSegs(j))
    /\ pos \in 1..Len(HttpSegs(i))
    /\ KindRank(HttpSegs(i)[pos]) # KindRank(HttpSegs(j)[pos])
    /\ \A k \in 1..Len(HttpSegs(i)) : k # pos => HttpSegs(i)[k] = HttpSegs(j)[k]

\* the entries of C are several and differ pairwise only in the kind of the
\* segment at pos
KindFamily(C, pos) ==
    /\ Cardinality(C) >= 2
    /\ \A i, j \in C : i # j => DifferInKindAt(i, j, pos)

----------------------------------------------------------------------------
(* C1: in a router of createHttpRouter, when the routes that match the     *)
(* path for the requested method have the same segment count and differ    *)
(* only in the kind of one segment, resolve returns the one whose segment  *)
(* there is of the highest kind (literal > parameter > wildcard > deep     *)
(* wildcard), whatever the registration order.                             *)
C1_HighestKindWins ==
    (call.made /\ mode = "http") =>
        LET C == Candidates
        IN  \A pos \in 1..MaxPathLen :
                KindFamily(C, pos) =>
                    \E w \in C :
                        /\ IsResult(w)
                        /\ \A i \in C :
                              KindRank(HttpSegs(w)[pos]) >= KindRank(HttpSegs(i)[pos])

\* a/**, a/*, a/:x, a/b registered in this order, the literal route last:
\* all four match /a/b for get and a/b is returned
C1_Witness ==
    /\ call.made
    /\ call.path = <<"/", "a", "/", "b">>
    /\ call.method = "get"
    /\ Len(Table) = 4
    /\ Table[1].route.pattern = <<"a", "/", "*", "*">>
    /\ Table[2].route.pattern = <<"a", "/", "*">>
    /\ Table[3].route.pattern = <<"a", "/", ":", "x">>
    /\ Table[4].route.pattern = <<"a", "/", "b">>
    /\ Candidates = 1..4
    /\ KindFamily(Candidates, 2)
    /\ IsResult(4)

----------------------------------------------------------------------------
(* C5: resolve(path, method) returns null, and raises no error, when no    *)
(* table entry both matches the path and has a handler for the method: a   *)
(* path no pattern matches, and a path whose only matching routes lack a   *)
(* handler for the requested method.                                       *)
C5_NullWhenNoCandidate ==
    (call.made /\ Candidates = {}) => (result = NullResult /\ ~error.thrown)

\* some routes match the path, none of them has a handler for the requested
\* method, and resolve returned null
C5_Witness ==
    /\ call.made
    /\ call.method = "post"
    /\ \E i \in 1..Len(Table) :
          /\ StringMatch(call.path, Table[i].regex).matched
          /\ IsFunction(RouteProp(Table[i].route, "get"))
    /\ Candidates = {}
    /\ result = NullResult

----------------------------------------------------------------------------
(* C6: the result of resolve(path, method) carries a handler lookup bound  *)
(* to the requested method: getHandler() with no argument returns the      *)
(* winning route's handler for the method that was passed to resolve.      *)
C6_GetHandlerBoundToMethod ==
    (got.kind = "handler" /\ got.arg = Undefined) =>
        got.value = RouteProp(result.route, call.method)

----------------------------------------------------------------------------
(* C9: in path-style patterns the query marker "?" and the fragment marker *)
(* "#" are never consumed by a wildcard, a parameter or a deep wildcard: a *)
(* path with "?" or "#" in the part covered by one of them does not match. *)
(* The literal parts of the patterns of QueryPool hold neither marker, so  *)
(* a marker of a matching path lies in the part its last segment covers.   *)
C9_MarkersNeverConsumed ==
    (call.made /\ \E k \in 1..Len(call.path) : call.path[k] \in {"?", "#"}) =>
        /\ \A i \in 1..Len(Table) : ~StringMatch(call.path, Table[i].regex).matched
        /\ result = NullResult

----------------------------------------------------------------------------
(* Duplicate validation *)

\* the table the constructor flattens the routes into
Flat == flattenRoutes(mode, routes)

\* the constructor has run: it returned the router or it threw
Constructed == router.built \/ error.thrown

\* both routes have a function under one same configured method
CommonMethod(r1, r2) ==
    \E k \in 1..Len(MethodsOf(mode)) :
        /\ IsFunction(RouteProp(r1, MethodsOf(mode)[k]))
        /\ IsFunction(RouteProp(r2, MethodsOf(mode)[k]))

\* entries i < j of table have the same expression source and a common method
Collide(table, i, j) ==
    /\ i < j
    /\ table[i].regex.source = table[j].regex.source
    /\ CommonMethod(table[i].route, table[j].route)

Collision(table) == \E i, j \in 1..Len(table) : Collide(table, i, j)

ThrownDuplicate ==
    /\ error.thrown
    /\ error.name = "Error"
    /\ error.message = "Duplicate route detected"

\* the patterns have the same segments but for the names of their parameters,
\* and some name differs
SameButParamNames(p, q) ==
    LET a == Segments(p, "/")
        b == Segments(q, "/")
    IN  /\ Len(a) = Len(b)
        /\ a # b
        /\ \A k \in 1..Len(a) :
              \/ a[k] = b[k]
              \/ StartsWith(a[k], <<":">>) /\ StartsWith(b[k], <<":">>)

(* C2: when two entries of the flattened table have the same expression    *)
(* source and a function under one same method, the step the constructor   *)
(* takes throws 'Duplicate route detected' and no router is returned,      *)
(* before as after the step.                                               *)
C2_DuplicateThrows ==
    [][ (Flat.ok /\ Collision(Flat.table)) =>
            /\ ~router.built
            /\ ~router'.built
            /\ error'.thrown
            /\ error'.name = "Error"
            /\ error'.message = "Duplicate route detected" ]_vars

\* a/:x twice, for get and for get and post: the constructor threw for get
C2_Witness ==
    /\ ThrownDuplicate
    /\ ~router.built
    /\ Len(routes) = 2
    /\ routes[1].pattern = <<"a", "/", ":", "x">>
    /\ routes[2].pattern = <<"a", "/", ":", "x">>
    /\ IsFunction(RouteProp(routes[1], "post"))
    /\ ~IsFunction(RouteProp(routes[2], "post"))
    /\ error.method = "get"
    /\ error.pattern = routes[2].pattern

(* C3, as stated: two routes whose patterns differ only in the name of a   *)
(* parameter, with a function under one same method, make the constructor  *)
(* throw the duplicate-route error.                                        *)
C3_ParamNameConflict ==
    Constructed =>
        \A i, j \in 1..Len(routes) :
            ( /\ i < j
              /\ SameButParamNames(routes[i].pattern, routes[j].pattern)
              /\ CommonMethod(routes[i], routes[j]) ) => ThrownDuplicate

(* C3, amended: the name of a parameter is part of the expression source   *)
(* ((?<x>...) against (?<y>...)), so two entries whose patterns differ only *)
(* in the name of a parameter have different sources; the constructor      *)
(* throws only if two other entries collide, and otherwise returns the     *)
(* router with both entries in its table.                                  *)
C3_ParamNamesDistinguish ==
    (Constructed /\ Flat.ok) =>
        \A i, j \in 1..Len(Flat.table) :
            ( /\ i < j
              /\ SameButParamNames(Flat.table[i].route.pattern, Flat.table[j].route.pattern)
              /\ CommonMethod(Flat.table[i].route, Flat.table[j].route) ) =>
                /\ Flat.table[i].regex.source # Flat.table[j].regex.source
                /\ error.thrown => Collision(Flat.table)
                /\ ~Collision(Flat.table) => router.built
                /\ router.built =>
                      /\ \E e \in 1..Len(Table) : Table[e].route.id = Flat.table[i].route.id
                      /\ \E e \in 1..Len(Table) : Table[e].route.id = Flat.table[j].route.id

\* a/:x and a/:y, both for get, are the table of the router; resolve gives
\* the first one with the parameter under its own name
C3_Witness ==
    /\ router.built
    /\ Len(Table) = 2
    /\ Table[1].route.pattern = <<"a", "/", ":", "x">>
    /\ Table[2].route.pattern = <<"a", "/", ":", "y">>
    /\ CommonMethod(Table[1].route, Table[2].route)
    /\ call.made
    /\ call.path = <<"/", "a", "/", "b">>
    /\ IsResult(1)
    /\ got.kind = "params"
    /\ got.value = [n \in {<<"x">>} |-> <<"b">>]

(* C4: the constructor throws the duplicate-route error only for two       *)
(* entries with the same expression source and a common method, the        *)
(* second of which it names; entries whose sources differ are never the    *)
(* reason, whatever paths they match, and are both in the table of the     *)
(* router when no others collide.                                          *)
C4_OnlySourceCollisionCounts ==
    /\ ThrownDuplicate =>
          /\ Flat.ok
          /\ \E i, j \in 1..Len(Flat.table) :
                /\ Collide(Flat.table, i, j)
                /\ error.pattern = Flat.table[j].route.pattern
                /\ IsFunction(RouteProp(Flat.table[i].route, error.method))
                /\ IsFunction(RouteProp(Flat.table[j].route, error.method))
    /\ (Constructed /\ Flat.ok /\ ~Collision(Flat.table)) =>
          /\ router.built
          /\ Len(Table) = Len(Flat.table)
          /\ \A i \in 1..Len(Table) : Table[i].route.id = Flat.table[i].route.id

\* a/:x and a/*, both for get, are the table of the router, and both match
\* the path of the call
C4_Witness ==
    /\ router.built
    /\ Len(Table) = 2
    /\ {Table[1].route.pattern, Table[2].route.pattern}
          = {<<"a", "/", ":", "x">>, <<"a", "/", "*">>}
    /\ IsFunction(RouteProp(Table[1].route, "get"))
    /\ IsFunction(RouteProp(Table[2].route, "get"))
    /\ Table[1].regex.source # Table[2].regex.source
    /\ call.made
    /\ call.method = "get"
    /\ Candidates = {1, 2}

----------------------------------------------------------------------------
(* Nested routes *)

\* the route of the tree rs with identity id
RECURSIVE RouteAt(_, _)
RouteAt(rs, id) ==
    IF Len(id) = 1 THEN rs[id[1]]
    ELSE RouteAt(rs[id[1]].children, Tail(id))

\* the identities of the routes of the tree rs, below prefix
RECURSIVE RouteIds(_, _)
RouteIds(rs, prefix) ==
    UNION {{prefix \o <<i>>} \cup RouteIds(rs[i].children, prefix \o <<i>>) :
              i \in 1..Len(rs)}

\* the level l of the chain of the route id: its ancestor of depth l, itself
\* for l = Len(id)
Level(id, l) == RouteAt(routes, SubSeq(id, 1, l))

\* the expression of a pattern compiled on its own, without a parent
Standalone(pattern) == BuilderBuild(compileHttpPattern(pattern, NewBuilder))

\* the expressions of the levels of the chain of id, each compiled on its own
LevelRegexes(id) == [l \in 1..Len(id) |-> Standalone(Level(id, l).pattern)]

\* the ways to cut path, after its first start characters, into consecutive
\* pieces for the levels l.. of a chain, ancestors first, where the piece of
\* a level matches the expression of that level, "/" included: a way is the
\* sequence of the positions where the pieces end
RECURSIVE SplitsFrom(_, _, _, _)
SplitsFrom(regexes, path, l, start) ==
    IF l > Len(regexes) THEN (IF start = Len(path) THEN {<<>>} ELSE {})
    ELSE UNION { {<<end>> \o rest : rest \in SplitsFrom(regexes, path, l + 1, end)} :
                    end \in {e \in start..Len(path) :
                                /\ regexes[l].ok
                                /\ StringMatch(SubSeq(path, start + 1, e), regexes[l]).matched} }

Splits(id, path) == SplitsFrom(LevelRegexes(id), path, 1, 0)

\* the path is the levels of the chain of id one after the other
ChainMatches(id, path) == Splits(id, path) # {}

\* piece l of path cut by c
PieceOf(path, c, l) == SubSeq(path, (IF l = 1 THEN 0 ELSE c[l - 1]) + 1, c[l])

\* the named captures of all the levels, for a path that c cuts into them
ChainGroups(id, path, c) ==
    LET g(l) == StringMatch(PieceOf(path, c, l), Standalone(Level(id, l).pattern)).groups
        names == UNION {DOMAIN g(l) : l \in 1..Len(id)}
    IN  [n \in names |-> g(CHOOSE l \in 1..Len(id) : n \in DOMAIN g(l))[n]]

HandlerLess(route) ==
    \A k \in 1..Len(MethodsOf(mode)) : ~IsFunction(RouteProp(route, MethodsOf(mode)[k]))

(* C7: the expression of a nested route matches exactly the paths made of  *)
(* a piece for every level of its chain, ancestors first and its own       *)
(* pattern last, each level with its leading "/"; getParams of the route   *)
(* resolve returns gives the named captures of all the levels.             *)
C7_PrefixInheritance ==
    (call.made /\ mode = "http") =>
        /\ \A e \in 1..Len(Table) :
              StringMatch(call.path, Table[e].regex).matched
                  <=> ChainMatches(Table[e].route.id, call.path)
        /\ got.kind = "params" =>
              \E c \in Splits(result.route.id, call.path) :
                  got.value = ChainGroups(result.route.id, call.path, c)

\* :x for get under a under a: "/a/a/b" resolves to it with x = "b", and its
\* expression matches neither "/a/b" nor "/b"
C7_Witness ==
    /\ router.built
    /\ Len(routes) = 1
    /\ routes[1].pattern = <<"a">>
    /\ routes[1].children # <<>>
    /\ Level(<<1, 1>>, 2).pattern = <<"a">>
    /\ Level(<<1, 1>>, 2).children # <<>>
    /\ Level(<<1, 1, 1>>, 3).pattern = <<":", "x">>
    /\ call.made
    /\ call.path = <<"/", "a", "/", "a", "/", "b">>
    /\ call.method = "get"
    /\ result.kind = "match"
    /\ result.route.id = <<1, 1, 1>>
    /\ got.kind = "params"
    /\ got.value = [n \in {<<"x">>} |-> <<"b">>]
    /\ \A e \in 1..Len(Table) :
          Table[e].route.id = <<1, 1, 1>> =>
              /\ ~StringMatch(<<"/", "a", "/", "b">>, Table[e].regex).matched
              /\ ~StringMatch(<<"/", "b">>, Table[e].regex).matched

----------------------------------------------------------------------------
(* Event-style routes *)

WsSegs(i) == Segments(Table[i].route.pattern, ":")

\* the number of literal segments of the pattern of entry i
LiteralCount(i) == Cardinality({k \in 1..Len(WsSegs(i)) : WsSegs(i)[k] # <<"*">>})

(* C10: in an event-style router, when the matching routes with a function *)
(* under the method all have the same number of segments, the route        *)
(* resolve returns has the most literal segments among them, whatever the  *)
(* order of the table.                                                     *)
C10_MoreLiteralsWin ==
    (call.made /\ mode = "ws") =>
        LET C == Candidates
        IN  (C # {} /\ \A i, j \in C : Len(WsSegs(i)) = Len(WsSegs(j))) =>
                \E w \in C :
                    /\ IsResult(w)
                    /\ \A i \in C : LiteralCount(w) >= LiteralCount(i)

\* a:* is registered before a:b, both for message: "a:b" resolves to a:b
C10_Witness ==
    /\ mode = "ws"
    /\ router.built
    /\ \E i, j \in 1..Len(Table) :
          /\ i < j
          /\ Table[i].route.pattern = <<"a", ":", "*">>
          /\ Table[j].route.pattern = <<"a", ":", "b">>
          /\ call.made
          /\ call.path = <<"a", ":", "b">>
          /\ call.method = "message"
          /\ {i, j} \subseteq Candidates
          /\ IsResult(j)

----------------------------------------------------------------------------
(* Repeated and interleaved calls *)

(* C12: a resolve call with the arguments of an earlier call, whatever     *)
(* calls were made in between, returns what the earlier call returned:     *)
(* null again, or the same route with the same captured parameters.        *)
C12_ResolveIdempotent ==
    (call.made /\ held.made /\ call.path = held.path /\ call.method = held.method) =>
        /\ result.kind = held.result.kind
        /\ result.kind = "match" =>
              /\ result.route.id = held.result.route.id
              /\ getParams(result) = getParams(held.result)

\* "/a/b" for get is resolved a second time while the first result is held:
\* the same route with the same parameters
C12_Witness ==
    /\ held.made
    /\ call.made
    /\ call.path = <<"/", "a", "/", "b">>
    /\ held.path = call.path
    /\ call.method = "get"
    /\ held.method = "get"
    /\ result.kind = "match"
    /\ held.result.kind = "match"
    /\ result.route.pattern = <<"a", "/", ":", "x">>
    /\ got.kind = "params"
    /\ got.value = getParams(held.result)

(* C17: a router that several callers call resolve on, in any order, has   *)
(* the table its constructor made, entry for entry, and every call, the    *)
(* one held as the one just made, has the result it has on the table of a  *)
(* router no one has called yet.                                           *)
C17_ResolveLeavesTable ==
    router.built =>
        /\ Table = Flat.table
        /\ call.made => result = resolve(mode, Flat.table, call.path, call.method)
        /\ held.made => held.result = resolve(mode, Flat.table, held.path, held.method)

\* two callers hold results of different calls on a table of two entries
C17_Witness ==
    /\ router.built
    /\ Len(Table) = 2
    /\ held.made
    /\ call.made
    /\ held.path # call.path
    /\ held.result.kind = "match"
    /\ result.kind = "match"
    /\ held.result.route.id # result.route.id

----------------------------------------------------------------------------
(* Paths made from a pattern *)

\* the path is the pattern with a non-empty value without "/" in the place of
\* every parameter and wildcard segment, each segment preceded by "/"
Instantiates(path, pattern) ==
    LET segs == Segments(pattern, "/")
        vals == Split(path, "/")
    IN  /\ Len(vals) = Len(segs) + 1
        /\ vals[1] = <<>>
        /\ \A k \in 1..Len(segs) :
              IF KindRank(segs[k]) = 4 THEN vals[k + 1] = segs[k]
              ELSE vals[k + 1] # <<>>

\* the score the default strategy gives entry i
HttpScore(i) == calculateRouteSpecificity([route |-> Table[i].route])

\* entry i has a function under the method of the call, and the path of the
\* call is made from its pattern
OwnsCallPath(i) ==
    /\ IsFunction(RouteProp(Table[i].route, call.method))
    /\ Instantiates(call.path, Table[i].route.pattern)

(* C11, as stated: resolve of a path made from the pattern of a route that *)
(* exposes the method returns that route.                                  *)
C11_InstanceResolvesToOwner ==
    (call.made /\ mode = "http") =>
        \A i \in 1..Len(Table) : OwnsCallPath(i) => IsResult(i)

(* C11, amended: resolve of a path made from the pattern of a route that   *)
(* exposes the method is never null; it returns that route unless another  *)
(* entry that matches the path and exposes the method scores higher, or    *)
(* scores the same and comes earlier in the table, and then it returns     *)
(* such an entry.                                                          *)
C11_InstanceResolvesToOwnerOrBetter ==
    (call.made /\ mode = "http") =>
        LET C == Candidates
        IN  \A i \in 1..Len(Table) :
                OwnsCallPath(i) =>
                    /\ i \in C
                    /\ result.kind = "match"
                    /\ \/ IsResult(i)
                       \/ \E j \in C \ {i} :
                             /\ IsResult(j)
                             /\ \/ HttpScore(j) > HttpScore(i)
                                \/ HttpScore(j) = HttpScore(i) /\ j < i

\* "/a/b" is made from a/:x and from :x/b, which score the same: the one
\* that comes first is returned, the other is not
C11_Witness ==
    /\ mode = "http"
    /\ call.made
    /\ call.path = <<"/", "a", "/", "b">>
    /\ call.method = "get"
    /\ \E i, j \in 1..Len(Table) :
          /\ i < j
          /\ Table[i].route.pattern = <<":", "x", "/", "b">>
          /\ Table[j].route.pattern = <<"a", "/", ":", "x">>
          /\ OwnsCallPath(i)
          /\ OwnsCallPath(j)
          /\ HttpScore(i) = HttpScore(j)
          /\ IsResult(i)
          /\ ~IsResult(j)

----------------------------------------------------------------------------
(* Table order and the selection strategy *)

\* the route p comes before the route q in the pre-order walk of the tree:
\* p is an ancestor of q, or where their identities first differ p is under
\* the earlier sibling
PreOrderBefore(p, q) ==
    \/ Len(p) < Len(q) /\ SubSeq(q, 1, Len(p)) = p
    \/ \E k \in 1..Len(p) :
          /\ k <= Len(q)
          /\ SubSeq(p, 1, k - 1) = SubSeq(q, 1, k - 1)
          /\ p[k] < q[k]

\* the least and the greatest of a non-empty set of table positions
First(C) == CHOOSE i \in C : \A j \in C : i <= j

Last(C) == CHOOSE i \in C : \A j \in C : i >= j

(* C13: the table is the routes with handlers in the pre-order of the tree *)
(* (a parent before its children, siblings as declared), and resolve       *)
(* returns what the strategy picks of the surviving entries in that order: *)
(* the earliest with select-first, the latest with select-last, null when  *)
(* none survives.                                                          *)
C13_PreOrderAndStrategy ==
    router.built =>
        /\ \A i, j \in 1..Len(Table) :
              i < j => PreOrderBefore(Table[i].route.id, Table[j].route.id)
        /\ \A id \in RouteIds(routes, <<>>) :
              ~HandlerLess(RouteAt(routes, id))
                  => \E e \in 1..Len(Table) : Table[e].route.id = id
        /\ (call.made /\ mode \in {"first", "last"}) =>
              LET C == Candidates
              IN  IF C = {} THEN result = NullResult
                  ELSE IF mode = "first" THEN IsResult(First(C))
                  ELSE IsResult(Last(C))

\* with select-last, of a and its children * and a, and * and its child a,
\* all matching "/a/a" but the two parents, the child of * is returned
C13_Witness ==
    /\ mode = "last"
    /\ router.built
    /\ Len(Table) = 5
    /\ [i \in 1..5 |-> Table[i].route.id] = << <<1>>, <<1, 1>>, <<1, 2>>, <<2>>, <<2, 1>> >>
    /\ call.made
    /\ call.path = <<"/", "a", "/", "a">>
    /\ Candidates = {2, 3, 5}
    /\ IsResult(5)
    /\ ~IsResult(2)

----------------------------------------------------------------------------
(* Patterns with characters of the expression syntax *)

(* C14: no character of a pattern acts as an operator of the compiled      *)
(* expression: a literal segment is matched character for character and a  *)
(* parameter segment, whatever its name, takes one non-empty segment of    *)
(* the path, so the expression of a pattern without a deep wildcard        *)
(* matches only the paths made from the pattern segment by segment.        *)
C14_NoInjection ==
    (call.made /\ mode = "http") =>
        \A e \in 1..Len(Table) :
            StringMatch(call.path, Table[e].regex).matched
                => Instantiates(call.path, Table[e].route.pattern)

(* C15: the constructor throws nothing but the duplicate-route error: a    *)
(* route list without two entries of the same method and source, such as   *)
(* a single route, constructs whatever its pattern is.                     *)
C15_OnlyDuplicatesFail ==
    /\ error.thrown => ThrownDuplicate
    /\ (Constructed /\ Len(routes) = 1) => router.built

----------------------------------------------------------------------------
(* Patterns of different lengths *)

(* C16: of two entries of the table the one whose pattern has more         *)
(* segments scores strictly higher, whatever the kinds of the segments,    *)
(* and the route resolve returns has the most segments of all the entries  *)
(* that match the path and have a function under the method.               *)
C16_LongerOutranks ==
    (call.made /\ mode = "http") =>
        /\ \A i, j \in 1..Len(Table) :
              Len(HttpSegs(i)) > Len(HttpSegs(j)) => HttpScore(i) > HttpScore(j)
        /\ LET C == Candidates
           IN  C # {} =>
                  \E w \in C :
                      /\ IsResult(w)
                      /\ \A i \in C : Len(HttpSegs(w)) >= Len(HttpSegs(i))

\* a/** is registered before */*/*, and both match "/a/a/b": the route of
\* three wildcards is returned, not the one with a literal
C16_Witness ==
    /\ mode = "http"
    /\ call.made
    /\ call.path = <<"/", "a", "/", "a", "/", "b">>
    /\ \E i, j \in 1..Len(Table) :
          /\ i < j
          /\ Table[i].route.pattern = <<"a", "/", "*", "*">>
          /\ Table[j].route.pattern = <<"*", "/", "*", "/", "*">>
          /\ {i, j} \subseteq Candidates
          /\ IsResult(j)

----------------------------------------------------------------------------
(* Same expression, different methods *)

\* entries i < j of table have the same expression source and no method
\* under which both have a function
SameSourceApart(table, i, j) ==
    /\ i < j
    /\ table[i].regex.source = table[j].regex.source
    /\ ~CommonMethod(table[i].route, table[j].route)

(* C18: two entries with the same expression source and no common method   *)
(* are no duplicate: when they are the whole route list the constructor    *)
(* returns the router, in any list it throws only for another pair, and    *)
(* resolve of a path they match returns a route with a function under the  *)
(* method asked for, the one of the two that has it when the table holds   *)
(* no other entry.                                                         *)
C18_KeyIsPerMethod ==
    (Constructed /\ Flat.ok) =>
        \A i, j \in 1..Len(Flat.table) :
            SameSourceApart(Flat.table, i, j) =>
                /\ error.thrown => Collision(Flat.table)
                /\ Len(Flat.table) = 2 => router.built
                /\ (router.built /\ call.made /\ StringMatch(call.path, Table[i].regex).matched) =>
                      \A e \in {i, j} :
                          IsFunction(RouteProp(Table[e].route, call.method)) =>
                              /\ result.kind = "match"
                              /\ IsFunction(RouteProp(result.route, call.method))
                              /\ Len(Table) = 2 => IsResult(e)

\* a/:x for get and a/:x for post are the table; "/a/b" for post resolves
\* to the second
C18_Witness ==
    /\ router.built
    /\ Len(Table) = 2
    /\ SameSourceApart(Table, 1, 2)
    /\ Table[1].route.pattern = Table[2].route.pattern
    /\ IsFunction(RouteProp(Table[1].route, "get"))
    /\ IsFunction(RouteProp(Table[2].route, "post"))
    /\ call.made
    /\ call.path = <<"/", "a", "/", "b">>
    /\ call.method = "post"
    /\ IsResult(2)
    /\ got.kind = "handler"
    /\ got.arg = "post"
    /\ got.value = RouteProp(Table[2].route, "post")

----------------------------------------------------------------------------
(* The method filter and the specificity *)

\* the entries that match the path of the last call, whatever their methods
PathMatches == {i \in 1..Len(Table) : StringMatch(call.path, Table[i].regex).matched}

\* entry s matches the path, has no function under the method, and scores
\* higher than every entry of C
Shadows(s, C) ==
    /\ s \in PathMatches \ C
    /\ \A c \in C : HttpScore(s) > HttpScore(c)

(* C19: when some entry matches the path and has a function under the      *)
(* method, resolve returns the highest scoring of these entries, even if   *)
(* an entry that matches the path without the method scores higher than    *)
(* all of them.                                                            *)
C19_FilterBeforeSpecificity ==
    (call.made /\ mode = "http") =>
        LET C == Candidates
        IN  C # {} =>
                /\ result.kind = "match"
                /\ \E w \in C :
                      /\ IsResult(w)
                      /\ \A c \in C : HttpScore(w) >= HttpScore(c)
                /\ \A s \in 1..Len(Table) : Shadows(s, C) => ~IsResult(s)

\* a/b has get only and a/* has post: "/a/b" for post resolves to a/*
C19_Witness ==
    /\ mode = "http"
    /\ call.made
    /\ call.path = <<"/", "a", "/", "b">>
    /\ call.method = "post"
    /\ \E s, w \in 1..Len(Table) :
          /\ Table[s].route.pattern = <<"a", "/", "b">>
          /\ Table[w].route.pattern = <<"a", "/", "*">>
          /\ Candidates = {w}
          /\ Shadows(s, Candidates)
          /\ IsResult(w)

----------------------------------------------------------------------------
(* The second argument of resolve *)

(* C20: resolve returns a route only for a second argument that is one of  *)
(* the configured methods and under which some entry that matches the path *)
(* has a function; for every other second argument it returns null.        *)
C20_NonNullOnlyForHandlers ==
    (call.made /\ result.kind = "match") =>
        /\ \E k \in 1..Len(MethodsOf(mode)) : MethodsOf(mode)[k] = call.method
        /\ \E e \in PathMatches : IsFunction(RouteProp(Table[e].route, call.method))

----------------------------------------------------------------------------
(* The position of a segment in the score *)

\* the patterns of entries i and j have the same number of segments of every
\* kind, and where their kinds first differ the segment of i is of the
\* higher kind
HigherKindEarlier(i, j) ==
    /\ Len(HttpSegs(i)) = Len(HttpSegs(j))
    /\ \A r \in 1..4 :
          Cardinality({k \in 1..Len(HttpSegs(i)) : KindRank(HttpSegs(i)[k]) = r})
              = Cardinality({k \in 1..Len(HttpSegs(j)) : KindRank(HttpSegs(j)[k]) = r})
    /\ \E k \in 1..Len(HttpSegs(i)) :
          /\ KindRank(HttpSegs(i)[k]) > KindRank(HttpSegs(j)[k])
          /\ \A l \in 1..(k - 1) : KindRank(HttpSegs(i)[l]) = KindRank(HttpSegs(j)[l])

(* C21: of two entries whose patterns have the same kinds of segments in a *)
(* different order, the one with the higher kind at the earlier position   *)
(* scores strictly higher, so when both match the path and have a function *)
(* under the method the other one is not returned.                         *)
C21_EarlierSegmentsWeighMore ==
    (call.made /\ mode = "http") =>
        LET C == Candidates
        IN  \A i, j \in C :
                HigherKindEarlier(i, j) =>
                    /\ HttpScore(i) > HttpScore(j)
                    /\ ~IsResult(j)

----------------------------------------------------------------------------
(* Equal scores *)

MaxTieRoutes == 3   \* routes of a route list with patterns of equal score

\* routes of createHttpRouter, two of them with the same kinds of segments
TieHttpPool ==
    { T(<<"a", "/", ":", "x">>, {"get"}),
      T(<<":", "x", "/", "b">>, {"get"}),
      T(<<"a", "/", "*">>, {"get"}),
      T(<<"*", "/", "b">>, {"get"}) }

\* routes of createWsRouter, two of them with the same kinds of segments
TieWsPool ==
    { T(<<"a", ":", "*">>, {"message"}),
      T(<<"*", ":", "b">>, {"message"}),
      T(<<"*", ":", "*">>, {"message"}),
      T(<<"a", ":", "b">>, {"message"}) }

TiePaths ==
    { <<"/", "a", "/", "b">>, <<"/", "a", "/", "a">>, <<"/", "b", "/", "b">>,
      <<"a", ":", "b">>, <<"a", ":", "a">>, <<"b", ":", "b">> }

\* createHttpRouter(...routes) or createWsRouter(...routes)
InitTie ==
    /\ \/ /\ mode = "http"
          /\ routes \in {FlatRoutes(l) : l \in InjSeqs(TieHttpPool, MaxTieRoutes)}
       \/ /\ mode = "ws"
          /\ routes \in {FlatRoutes(l) : l \in InjSeqs(TieWsPool, MaxTieRoutes)}
    /\ router = NoRouterYet
    /\ error = NoError
    /\ call = NoCall
    /\ result = NoResult
    /\ got = NothingGot
    /\ held = NothingHeld

NextTie ==
    \/ Construct
    \/ Resolve(TiePaths, {"get", "message"})
    \/ GetHandler({"get", "message"})
    \/ GetParams
    \/ Discard

SpecTie == InitTie /\ [][NextTie]_vars

\* the score the default strategy of the router gives to entry i
ModeScore(i) ==
    IF mode = "ws" THEN calculateWsSpecificity([route |-> Table[i].route])
    ELSE calculateRouteSpecificity([route |-> Table[i].route])

(* C22: with the default strategies the route resolve returns is a matched *)
(* route of maximal score, and among the matched routes of that score it   *)
(* is the first in table order.                                            *)
C22_FirstOfTheBest ==
    (call.made /\ Candidates # {}) =>
        \E w \in Candidates :
            /\ IsResult(w)
            /\ \A i \in Candidates :
                  /\ ModeScore(w) >= ModeScore(i)
                  /\ ModeScore(i) = ModeScore(w) => w <= i

\* two matched routes of the same maximal score, and a third of a lower one
\* registered first: the earlier of the two is returned
C22_Witness ==
    /\ call.made
    /\ \E l, w, i \in Candidates :
          /\ l < w /\ w < i
          /\ ModeScore(l) < ModeScore(w)
          /\ ModeScore(i) = ModeScore(w)
          /\ IsResult(w)

----------------------------------------------------------------------------
(* Flat routes next to nested routes *)

MaxForestRoots == 2      \* top-level routes of a list of flat and nested routes
MaxForestChildren == 2   \* children of a nested route of such a list

ForestLeaves == {N(p, {"get"}, <<>>) : p \in {<<"b">>, <<":", "x">>}}

\* flat routes of two segments, and routes of one segment with children, with
\* and without a handler of their own
ForestNodes ==
    {N(<<"a">>, {}, kids) : kids \in InjSeqs(ForestLeaves, MaxForestChildren)}
    \cup {N(<<"a">>, {"get"}, <<N(<<"b">>, {"get"}, <<>>)>>),
          N(<<"b">>, {}, <<N(<<"b">>, {"get"}, <<>>)>>)}
    \cup {N(<<"a", "/", "b">>, {"get"}, <<>>), N(<<"a", "/", ":", "x">>, {"get"}, <<>>)}

ForestPaths ==
    { <<"/", "a">>, <<"/", "a", "/", "b">>, <<"/", "a", "/", "a">>,
      <<"/", "b", "/", "b">> }

InitForest ==
    InitWith("http", {TreeRoutes(l, <<>>) : l \in Seqs(ForestNodes, MaxForestRoots)})

NextForest ==
    \/ Construct
    \/ Resolve(ForestPaths, {"get"})
    \/ GetHandler({"get"})
    \/ GetParams
    \/ Discard

SpecForest == InitForest /\ [][NextForest]_vars

\* the segments of the levels of the chain of id from level l on, ancestors
\* first
RECURSIVE ChainSegs(_, _)
ChainSegs(id, l) ==
    IF l > Len(id) THEN <<>>
    ELSE Segments(Level(id, l).pattern, "/") \o ChainSegs(id, l + 1)

\* the score of the effective pattern of entry i: the segments of its
\* ancestors, then its own
EffectiveScore(i) ==
    LET segments == ChainSegs(Table[i].route.id, 1)
    IN  Len(segments) * 10000 + SegmentScore(segments, 1, FALSE)

(* C23: the route resolve returns has, among the matching routes with a    *)
(* function under the method, the highest score of the effective pattern,  *)
(* ancestors included: a literal child beats a flat route with a parameter *)
(* in the same place.                                                      *)
C23_NestedScoredByFullPattern ==
    (call.made /\ Candidates # {}) =>
        \E w \in Candidates :
            /\ IsResult(w)
            /\ \A i \in Candidates : EffectiveScore(w) >= EffectiveScore(i)

----------------------------------------------------------------------------
(* Duplicates across the levels of the tree *)

\* the effective pattern of the route id: the segments of its ancestors and
\* its own, with "/" between them
RECURSIVE JoinSegs(_)
JoinSegs(segments) ==
    IF segments = <<>> THEN <<>>
    ELSE IF Len(segments) = 1 THEN segments[1]
    ELSE segments[1] \o <<"/">> \o JoinSegs(Tail(segments))

EffectivePattern(id) == JoinSegs(ChainSegs(id, 1))

\* the routes p and q of the tree are different, have a function under one
\* same method, and their effective patterns compile to the same source
SameFullExpression(p, q) ==
    /\ p # q
    /\ CommonMethod(RouteAt(routes, p), RouteAt(routes, q))
    /\ Standalone(EffectivePattern(p)).source = Standalone(EffectivePattern(q)).source

(* C25: the constructor throws 'Duplicate route detected' exactly when two *)
(* routes anywhere in the tree have a function under one same method and   *)
(* the same full expression, ancestors included: a child under a parent    *)
(* conflicts with the flat route of the same effective pattern, and two    *)
(* children with the same own pattern under parents with different         *)
(* patterns make no conflict.                                              *)
C25_DuplicatesAcrossTree ==
    (Constructed /\ Flat.ok) =>
        LET ids == RouteIds(routes, <<>>)
        IN  /\ ThrownDuplicate <=> \E p, q \in ids : SameFullExpression(p, q)
            /\ \A p, q \in ids :
                  ( /\ Len(p) = 2 /\ Len(q) = 2
                    /\ RouteAt(routes, p).pattern = RouteAt(routes, q).pattern
                    /\ Level(p, 1).pattern # Level(q, 1).pattern
                    /\ Cardinality(ids) = 4
                    /\ HandlerLess(Level(p, 1)) /\ HandlerLess(Level(q, 1)) )
                  => router.built

\* the child b of a route a without handlers, and the flat route a/b, both
\* for get: the constructor threw
C25_Witness ==
    /\ ThrownDuplicate
    /\ Len(routes) = 2
    /\ routes[1].pattern = <<"a">>
    /\ HandlerLess(routes[1])
    /\ Len(routes[1].children) = 1
    /\ routes[1].children[1].pattern = <<"b">>
    /\ routes[2].pattern = <<"a", "/", "b">>
    /\ error.method = "get"
    /\ error.pattern = <<"a", "/", "b">>

----------------------------------------------------------------------------
(* Leading, trailing and repeated "/" in a pattern *)

MaxSlashRoutes == 2    \* routes of a route list with patterns that differ in "/"
MaxSlashPathLen == 4   \* characters of a path given to such a router

\* one pattern written with and without leading, trailing and repeated "/",
\* and the root written as "/" and as the empty string
SlashPool ==
    { T(<<"a", "/", ":", "x">>, {"get"}),
      T(<<"/", "a", "/", ":", "x">>, {"post"}),
      T(<<"a", "/", "/", ":", "x", "/">>, {"get", "post"}),
      T(<<"a">>, {"get"}),
      T(<<"/">>, {"get"}),
      T(<<>>, {"post"}) }

SlashPaths == StrsUpTo({"/", "a"}, MaxSlashPathLen)

InitSlash == InitWith("http", {FlatRoutes(l) : l \in Seqs(SlashPool, MaxSlashRoutes)})

NextSlash ==
    \/ Construct
    \/ Resolve(SlashPaths, {"get", "post"})
    \/ GetHandler({"get", "post"})
    \/ GetParams
    \/ Discard

SpecSlash == InitSlash /\ [][NextSlash]_vars

\* p without its leading and trailing "/" and with one "/" for every run of
\* "/" inside: out is the text so far, pending tells that a "/" was met
\* after it
RECURSIVE Squeeze(_, _, _)
Squeeze(p, out, pending) ==
    IF p = <<>> THEN out
    ELSE IF Head(p) = "/" THEN Squeeze(Tail(p), out, out # <<>>)
    ELSE Squeeze(Tail(p), out \o (IF pending THEN <<"/">> ELSE <<>>) \o <<Head(p)>>, FALSE)

\* the patterns differ at most by leading, trailing and repeated "/"
SameButSlashes(p, q) == Squeeze(p, <<>>, FALSE) = Squeeze(q, <<>>, FALSE)

(* C24: two patterns that differ only by leading, trailing or repeated "/" *)
(* compile to the same expression source, and with a function under one    *)
(* same method the constructor throws 'Duplicate route detected'; every    *)
(* path an entry matches starts with "/"; the patterns "/" and "" match    *)
(* the path "/" and no other.                                              *)
C24_SlashesIgnored ==
    (Constructed /\ Flat.ok) =>
        /\ \A i, j \in 1..Len(Flat.table) :
              (i < j /\ SameButSlashes(Flat.table[i].route.pattern, Flat.table[j].route.pattern)) =>
                  /\ Flat.table[i].regex.source = Flat.table[j].regex.source
                  /\ CommonMethod(Flat.table[i].route, Flat.table[j].route) => ThrownDuplicate
        /\ (router.built /\ call.made) =>
              \A i \in 1..Len(Table) :
                  LET m == StringMatch(call.path, Table[i].regex).matched
                  IN  /\ m => (call.path # <<>> /\ Head(call.path) = "/")
                      /\ Table[i].route.pattern \in {<<"/">>, <<>>} =>
                            (m <=> call.path = <<"/">>)

\* a/:x and a//:x/, both for get: the constructor threw for the second
C24_Witness ==
    /\ ThrownDuplicate
    /\ Len(routes) = 2
    /\ routes[1].pattern = <<"a", "/", ":", "x">>
    /\ routes[2].pattern = <<"a", "/", "/", ":", "x", "/">>
    /\ error.method = "get"
    /\ error.pattern = routes[2].pattern

----------------------------------------------------------------------------
(* The wildcard of event names *)

\* the event name is the pattern with a non-empty value without ":" in the
\* place of every "*" segment, the segments separated by ":"
WsInstantiates(path, pattern) ==
    LET segs == Segments(pattern, ":")
        vals == Split(path, ":")
    IN  /\ Len(vals) = Len(segs)
        /\ \A k \in 1..Len(segs) :
              IF segs[k] = <<"*">> THEN vals[k] # <<>>
              ELSE vals[k] = segs[k]

(* C26: in an event-style router a "*" segment stands for one non-empty    *)
(* segment and never for text that holds ":", so an entry matches only the *)
(* event names that have its pattern's number of segments, each literal    *)
(* segment in its place.                                                   *)
C26_WildcardStopsAtColon ==
    (call.made /\ mode = "ws") =>
        \A i \in 1..Len(Table) :
            StringMatch(call.path, Table[i].regex).matched =>
                WsInstantiates(call.path, Table[i].route.pattern)

----------------------------------------------------------------------------
(* The leading ":" of an event pattern, flat and nested *)

MaxWsNestRoots == 1   \* top-level routes of an event router with nested routes

WsNestPatterns == { <<"a">>, <<":", "b">>, <<"b">>, <<":">>, <<":", ":", "b">> }

WsNestLeaves == {N(p, {"message"}, <<>>) : p \in WsNestPatterns}

\* a route of literal segments, with or without a handler, with no child or
\* one
WsNestNodes ==
    {N(p, ms, kids) : p \in WsNestPatterns, ms \in {{}, {"message"}},
                      kids \in {<<>>} \cup {<<c>> : c \in WsNestLeaves}}

WsNestPaths ==
    { <<>>, <<"a">>, <<"b">>, <<":", "b">>, <<":", ":", "b">>, <<"a", "b">>,
      <<"a", ":", "b">>, <<"a", ":", ":", "b">>, <<"b", "b">>, <<":", "b", "b">>,
      <<":", "b", ":", "b">>, <<"b", ":", "b">> }

InitWsNest ==
    InitWith("ws", {TreeRoutes(l, <<>>) : l \in Seqs(WsNestNodes, MaxWsNestRoots)})

NextWsNest ==
    \/ Construct
    \/ Resolve(WsNestPaths, {"message"})
    \/ GetHandler({"message"})
    \/ GetParams
    \/ Discard

SpecWsNest == InitWsNest /\ [][NextWsNest]_vars

\* the segments joined by ":"
RECURSIVE JoinColon(_)
JoinColon(segments) ==
    IF segments = <<>> THEN <<>>
    ELSE IF Len(segments) = 1 THEN segments[1]
    ELSE segments[1] \o <<":">> \o JoinColon(Tail(segments))

\* the text of a pattern of literal segments: its non-empty segments with
\* ":" between them, after a ":" when the pattern starts with ":" and has a
\* non-empty segment
WsText(pattern) ==
    LET segs == Segments(pattern, ":")
    IN  (IF pattern # <<>> /\ Head(pattern) = ":" /\ segs # <<>> THEN <<":">> ELSE <<>>)
        \o JoinColon(segs)

\* the texts of the levels l.. of the chain of id one after the other, with
\* nothing between them
RECURSIVE WsChainText(_, _)
WsChainText(id, l) ==
    IF l > Len(id) THEN <<>>
    ELSE WsText(Level(id, l).pattern) \o WsChainText(id, l + 1)

(* C27: an entry of literal segments of an event-style router matches the  *)
(* event name made of the texts of its levels, ancestors first, with       *)
(* nothing put between a parent and a child, and no other name; the text   *)
(* of a level starts with ":" exactly when its pattern starts with ":" and *)
(* has a non-empty segment.                                                *)
C27_LeadingColonOnly ==
    (router.built /\ call.made /\ mode = "ws") =>
        \A i \in 1..Len(Table) :
            StringMatch(call.path, Table[i].regex).matched
                <=> call.path = WsChainText(Table[i].route.id, 1)

\* child :b of a route a without handlers: "a:b" resolves to the child
C27_Witness ==
    /\ mode = "ws"
    /\ router.built
    /\ Len(routes) = 1
    /\ routes[1].pattern = <<"a">>
    /\ HandlerLess(routes[1])
    /\ Len(routes[1].children) = 1
    /\ routes[1].children[1].pattern = <<":", "b">>
    /\ call.made
    /\ call.path = <<"a", ":", "b">>
    /\ result.kind = "match"
    /\ result.route.id = <<1, 1>>

----------------------------------------------------------------------------
(* Segments after a deep wildcard *)

MaxDeepRoutes == 2    \* routes of a route list with "**" inside a pattern
MaxDeepPathLen == 4   \* characters of a path given to such a router

\* literal segments, then "**", with and without segments after it
DeepPool ==
    { T(<<"a", "/", "*", "*">>, {"get"}),
      T(<<"a", "/", "*", "*", "/", "b">>, {"get"}),
      T(<<"a", "/", "*", "*", "/", "b">>, {"post"}),
      T(<<"*", "*", "/", "a">>, {"post"}),
      T(<<"a", "/", "b">>, {"get"}) }

DeepPaths == StrsUpTo({"/", "a"}, MaxDeepPathLen)

InitDeep == InitWith("http", {FlatRoutes(l) : l \in Seqs(DeepPool, MaxDeepRoutes)})

NextDeep ==
    \/ Construct
    \/ Resolve(DeepPaths, {"get", "post"})
    \/ GetHandler({"get", "post"})
    \/ GetParams
    \/ Discard

SpecDeep == InitDeep /\ [][NextDeep]_vars

\* the pattern has a "**" segment
HasDeep(pattern) ==
    \E k \in 1..Len(Segments(pattern, "/")) : Segments(pattern, "/")[k] = <<"*", "*">>

\* the segments of the pattern before its first "**"
BeforeDeep(pattern) ==
    LET segs == Segments(pattern, "/")
        d == CHOOSE k \in 1..Len(segs) :
                 /\ segs[k] = <<"*", "*">>
                 /\ \A l \in 1..(k - 1) : segs[l] # <<"*", "*">>
    IN  SubSeq(segs, 1, d - 1)

\* "/", then every literal segment followed by "/"
DeepHead(segments) == <<"/">> \o Join([k \in 1..Len(segments) |-> segments[k] \o <<"/">>])

(* C28: what follows a "**" segment in a pattern is not compiled: two      *)
(* patterns with the same segments up to their first "**" have the same    *)
(* expression source, and with a function under one same method the        *)
(* constructor throws 'Duplicate route detected'; a pattern of literal     *)
(* segments, "**" and anything after it matches the paths made of "/", the *)
(* literal segments each followed by "/", and one character or more, so    *)
(* a/**/b matches "/a/a".                                                  *)
C28_NothingAfterDeep ==
    (Constructed /\ Flat.ok) =>
        /\ \A i, j \in 1..Len(Flat.table) :
              LET p == Flat.table[i].route.pattern
                  q == Flat.table[j].route.pattern
              IN  (i < j /\ HasDeep(p) /\ HasDeep(q) /\ BeforeDeep(p) = BeforeDeep(q)) =>
                      /\ Flat.table[i].regex.source = Flat.table[j].regex.source
                      /\ CommonMethod(Flat.table[i].route, Flat.table[j].route)
                            => ThrownDuplicate
        /\ (router.built /\ call.made) =>
              \A i \in 1..Len(Table) :
                  HasDeep(Table[i].route.pattern) =>
                      LET h == DeepHead(BeforeDeep(Table[i].route.pattern))
                      IN  StringMatch(call.path, Table[i].regex).matched
                              <=> /\ Len(call.path) > Len(h)
                                  /\ SubSeq(call.path, 1, Len(h)) = h

\* a/**/b for post alone: "/a/a" resolves to it
C28_Witness ==
    /\ router.built
    /\ Len(Table) = 1
    /\ Table[1].route.pattern = <<"a", "/", "*", "*", "/", "b">>
    /\ call.made
    /\ call.path = <<"/", "a", "/", "a">>
    /\ call.method = "post"
    /\ IsResult(1)

----------------------------------------------------------------------------
(* The paths a pattern matches *)

MaxLangRoutes == 1    \* routes of a router whose match language is examined
MaxLangPathLen == 4   \* characters of a path given to such a router

\* a deep wildcard, a wildcard and a parameter, alone and after a literal or
\* a parameter
LangPool ==
    { T(<<"*", "*">>, {"get"}),
      T(<<"*">>, {"get"}),
      T(<<":", "x">>, {"get"}),
      T(<<"a", "/", "*", "*">>, {"get"}),
      T(<<":", "x", "/", "*", "*">>, {"get"}),
      T(<<"a", "/", ":", "x">>, {"get"}) }

\* paths with a separator, a letter, a query marker and a line terminator
LangPaths == StrsUpTo({"/", "a", "?", "\n"}, MaxLangPathLen)

InitLang == InitWith("http", {FlatRoutes(l) : l \in InjSeqs(LangPool, MaxLangRoutes)})

NextLang ==
    \/ Construct
    \/ Resolve(LangPaths, {"get"})
    \/ GetHandler({"get"})
    \/ GetParams
    \/ Discard

SpecLang == InitLang /\ [][NextLang]_vars

\* the position of the last character of the run of characters other than
\* "/" that starts at position pos of path; pos - 1 when the run is empty
RECURSIVE RunEnd(_, _)
RunEnd(path, pos) ==
    IF pos > Len(path) \/ path[pos] = "/" THEN pos - 1
    ELSE RunEnd(path, pos + 1)

\* the characters of path from position pos on are, for every segment from
\* segment k on: "/", then the segment itself if it is a literal, a
\* non-empty run without "/" and without the characters of runEx if it is a
\* parameter or "*", and for "**" one character or more, none of deepEx,
\* up to the end of the path; nothing is left after the last segment
RECURSIVE InLanguage(_, _, _, _, _, _)
InLanguage(path, pos, segs, k, runEx, deepEx) ==
    IF k > Len(segs) THEN pos = Len(path) + 1
    ELSE
    /\ pos <= Len(path)
    /\ path[pos] = "/"
    /\ IF segs[k] = <<"*", "*">>
       THEN /\ pos < Len(path)
            /\ \A e \in (pos + 1)..Len(path) : path[e] \notin deepEx
       ELSE IF KindRank(segs[k]) = 4
       THEN /\ pos + Len(segs[k]) <= Len(path)
            /\ SubSeq(path, pos + 1, pos + Len(segs[k])) = segs[k]
            /\ InLanguage(path, pos + Len(segs[k]) + 1, segs, k + 1, runEx, deepEx)
       ELSE LET end == RunEnd(path, pos + 1)
            IN  /\ end > pos
                /\ \A e \in (pos + 1)..end : path[e] \notin runEx
                /\ InLanguage(path, end + 1, segs, k + 1, runEx, deepEx)

\* the characters a parameter or "*" does not take, and those "." does not
RunClass == {"/", "?", "#"}

----------------------------------------------------------------------------
(* One builder for every route *)

\* the tree rs without the routes that are not on the chain of id
RECURSIVE ChainOnly(_, _)
ChainOnly(rs, id) ==
    LET r == rs[id[1]]
    IN  <<[r EXCEPT !.children = IF Len(id) = 1 THEN <<>>
                                 ELSE ChainOnly(r.children, Tail(id))]>>

\* the tree rs with the routes of every list in the opposite order
RECURSIVE Reversed(_)
Reversed(rs) ==
    [i \in 1..Len(rs) |->
        LET r == rs[Len(rs) + 1 - i]
        IN  [r EXCEPT !.children = Reversed(r.children)]]

(* C30: the expression of a flattened route depends on the patterns of its *)
(* ancestors and its own alone: it is the expression the route gets when   *)
(* all the routes off its chain are removed from the tree, and the one it  *)
(* gets when the routes of every list are given in the opposite order.     *)
C30_BuilderPerBranch ==
    (Constructed /\ Flat.ok) =>
        LET rev == flattenRoutes(mode, Reversed(routes))
        IN  /\ rev.ok
            /\ \A i \in 1..Len(Flat.table) :
                  LET id == Flat.table[i].route.id
                      alone == flattenRoutes(mode, ChainOnly(routes, id))
                  IN  /\ alone.ok
                      /\ alone.table # <<>>
                      /\ alone.table[Len(alone.table)].route.id = id
                      /\ alone.table[Len(alone.table)].regex.source
                            = Flat.table[i].regex.source
                      /\ \E k \in 1..Len(rev.table) :
                            /\ rev.table[k].route.id = id
                            /\ rev.table[k].regex.source = Flat.table[i].regex.source

\* a route a with the children b and :x, before another route with a child:
\* the second child of a is compiled after "/a" alone, and "/a/a" resolves
\* to it
C30_Witness ==
    /\ router.built
    /\ Len(routes) = 2
    /\ routes[1].pattern = <<"a">>
    /\ Len(routes[1].children) = 2
    /\ routes[1].children[1].pattern = <<"b">>
    /\ routes[1].children[2].pattern = <<":", "x">>
    /\ Len(routes[2].children) = 1
    /\ \E i \in 1..Len(Table) :
          /\ Table[i].route.id = <<1, 2>>
          /\ Table[i].regex.source = Standalone(<<"a", "/", ":", "x">>).source
          /\ call.made
          /\ call.path = <<"/", "a", "/", "a">>
          /\ IsResult(i)

=============================================================================
